---- MODULE Spec2Model ----
(***************************************************************************)
(* Reindex workflow of src/meilisearch.ts (reindex and its helpers) run    *)
(* against a search engine that processes enqueued tasks in FIFO order,    *)
(* the wave scheduler of scrapePages, the page walk and the item_priority  *)
(* of scrapePage, and main with processConfig of src/index.ts.             *)
(***************************************************************************)
EXTENDS Integers, Sequences, FiniteSets, TLC

(* ------------------------------ constants ------------------------------ *)

BATCH_SIZE == 1000

ReadmeBatchSize == 100

MaxBatches == 1

MaxRuns == 2

MaxUrls == 12

EntryConcurrency == 10

indexName == "docs"

tempIndexName == "docs_temp"

IndexUids == {indexName, tempIndexName}

(* corpus sizes tried: one more than the documented batch size, one full   *)
(* batch, and MaxBatches full batches and one document; processConfig      *)
(* never passes an empty corpus                                            *)
CorpusSizes ==
  {ReadmeBatchSize + 1, BATCH_SIZE, MaxBatches * BATCH_SIZE + 1}

(* custom_settings values tried: undefined (validateConfig does not ask    *)
(* for the field) and the two fields of the README's example               *)
SettingsChoices ==
  { [defined |-> FALSE, fields |-> {}],
    [defined |-> TRUE, fields |-> {"searchableAttributes", "rankingRules"}] }

VARIABLES
  engine,        \* index uid -> [exists, docs, settings]: the engine's indexes
  tasks,         \* the engine's tasks still enqueued, and the last finished one
  pc,            \* position of reindex
  run,           \* number of invocations of reindex so far
  documents,     \* parameter documents of reindex
  settings,      \* parameter settings of reindex
  i,             \* loop variable of addDocuments
  mainExists,    \* local mainExists of reindex
  taskUid,       \* task.taskUid the caller holds (0: none)
  lastReq,       \* history: the last engine request the run issued
  atStart,       \* history: the engine's indexes when the run started
  prev,          \* history: what the previous run left behind
  faulted,       \* history: a request or task of the run failed before step 6
  delOldFaulted, \* history: the deletion of step 6 failed
  batches,       \* history: the slices addDocuments has sent, in send order
  urls,          \* parameter urls of scrapePages
  concurrency,   \* parameter concurrency of scrapePages
  spc,           \* position of scrapePages
  si,            \* loop variable i of scrapePages
  page,          \* url -> state of the callback scraping it
  processed,     \* local processed of scrapePages
  allDocuments,  \* local allDocuments of scrapePages
  web,           \* the responses the fetch of a url may get
  response,      \* history: url position -> the response its fetch got
  results,       \* url position -> number of documents its callback returned
  completion,    \* history: the positions whose callbacks returned documents,
                 \* in the order the callbacks ended
  configPaths,   \* the configurations named on the command line
  ci,            \* number of configurations main has started
  mpc,           \* position of processConfig
  processResults, \* local results of main
  exitCode,      \* the exit code of the process, once it has exited
  pageUrl,       \* parameter url of scrapePage
  pageRank,      \* parameter pageRank of scrapePage
  globalLvl,     \* locals globalLvl0 and globalLvl1 of scrapePage
  allElements,   \* local allElements of scrapePage
  ppc,           \* position of scrapePage
  ei,            \* position of the walk in allElements
  currentHierarchy, \* local currentHierarchy of scrapePage
  lastHeadingAnchor, \* local lastHeadingAnchor of scrapePage
  contentIndex,  \* local contentIndex of scrapePage
  pageDocuments, \* local documents of scrapePage
  compared,      \* two documents to be, as the inputs of item_priority
  priorities,    \* the item_priority of each of the two
  lvlConfig,     \* locals lvl0Config and lvl1Config of scrapePage
  breadcrumb,    \* local breadcrumb of scrapePage
  pageTags,      \* local pageTags of scrapePage
  env,           \* process.env: BASIC_AUTH_USERNAME and BASIC_AUTH_PASSWORD
  requests,      \* history: the fetches issued, each with its headers
  document,      \* local document of scrapePage: its nodes in document order
  dpc,           \* position of scrapePage before its walk
  startUrls,     \* parameter startUrls of matchStartUrl
  selectors,     \* config.selectors, as the keys it declares, in order
  matchUrl,      \* parameter url of matchStartUrl
  matched,       \* what matchStartUrl returned
  selected,      \* what getSelectorsForKey returned
  matchPc        \* position of the callback of scrapePages before scrapePage

reindexVars == <<engine, tasks, pc, run, documents, settings, i, mainExists,
                 taskUid, lastReq, atStart, prev, faulted, delOldFaulted,
                 batches>>

scrapeVars == <<urls, concurrency, spc, si, page, processed, allDocuments,
                web, response, results, completion>>

mainVars == <<configPaths, ci, mpc, processResults, exitCode>>

pageVars == <<pageUrl, pageRank, globalLvl, lvlConfig, breadcrumb, pageTags,
              allElements, ppc, ei, currentHierarchy,
              lastHeadingAnchor, contentIndex, pageDocuments, compared,
              priorities>>

domVars == <<env, requests, document, dpc>>

matchVars == <<startUrls, selectors, matchUrl, matched, selected, matchPc>>

vars == <<reindexVars, scrapeVars, mainVars, pageVars, domVars, matchVars>>

clientVars == <<pc, run, documents, settings, i, mainExists, taskUid, lastReq,
                atStart, prev, batches, scrapeVars, mainVars, pageVars, domVars, matchVars>>

(* ------------------------------ documents ------------------------------ *)

Min(a, b) == IF a < b THEN a ELSE b

Max(a, b) == IF a < b THEN b ELSE a

(* An array of SearchDocuments is held as a run of consecutive documents:  *)
(* <<from, to, age>> stands for the documents with objectIDs from+1 .. to, *)
(* in this order; age is "new" for content scraped for the current run and *)
(* "old" for content of an earlier run.                                    *)
Corpus(n) == <<0, n, "new">>

length(d) == d[2] - d[1]

slice_inclusive(d, start, end) ==
  <<d[1] + Min(start, length(d)), d[1] + Min(end + 1, length(d)), d[3]>>

(* Array.prototype.slice(start, end) *)
slice(d, start, end) ==
  <<d[1] + Min(start, length(d)), d[1] + Min(end, length(d)), d[3]>>

(* The documents of an index are a set of such runs, pairwise disjoint and *)
(* with no two adjacent runs of the same age, so that two indexes hold the *)
(* same documents exactly when their sets of runs are equal.               *)
RECURSIVE Coalesce(_)
Coalesce(S) ==
  IF \E x \in S, y \in S : x[2] = y[1] /\ x[3] = y[3]
  THEN LET x == CHOOSE x \in S : \E y \in S : x[2] = y[1] /\ x[3] = y[3]
           y == CHOOSE y \in S : x[2] = y[1] /\ x[3] = y[3]
       IN  Coalesce((S \ {x, y}) \cup {<<x[1], y[2], x[3]>>})
  ELSE S

(* what is left of the run x when the objectIDs of the run d are removed *)
Without(x, d) ==
  {r \in {<<x[1], Min(x[2], d[1]), x[3]>>, <<Max(x[1], d[2]), x[2], x[3]>>} :
     r[1] < r[2]}

(* ------------------------------- engine -------------------------------- *)

Absent == [exists |-> FALSE, docs |-> {}, settings |-> {}]

EmptyIndex == [exists |-> TRUE, docs |-> {}, settings |-> {}]

(* add-or-replace by primary key objectID *)
AddOrReplace(docs, batch) ==
  Coalesce(UNION {Without(x, batch) : x \in docs} \cup {batch})

(* update only the settings fields present in the payload *)
UpdateSettings(old, payload, r) ==
  {s \in old : s[1] \notin payload} \cup {<<f, r>> : f \in payload}

(* the error an engine task must end with in state e ("none": it can succeed) *)
TaskError(t, e) ==
  CASE t.op = "indexCreation" /\ e[t.uid].exists -> "index_already_exists"
    [] t.op = "indexDeletion" /\ ~e[t.uid].exists -> "index_not_found"
    [] t.op = "indexSwap" /\ ~(e[indexName].exists /\ e[tempIndexName].exists)
         -> "index_not_found"
    [] OTHER -> "none"

SwapEffect(t, e) ==
  [e EXCEPT ![indexName] = e[tempIndexName], ![tempIndexName] = e[indexName]]

(* the effect of a succeeding task; a settings update or a document        *)
(* addition creates a missing index                                        *)
TaskEffect(t, e) ==
  CASE t.op = "indexCreation" -> [e EXCEPT ![t.uid] = EmptyIndex]
    [] t.op = "indexDeletion" -> [e EXCEPT ![t.uid] = Absent]
    [] t.op = "settingsUpdate" ->
         [e EXCEPT ![t.uid] =
            [exists |-> TRUE, docs |-> @.docs,
             settings |-> UpdateSettings(@.settings, t.payload, "new")]]
    [] t.op = "documentAdditionOrUpdate" ->
         [e EXCEPT ![t.uid] =
            [exists |-> TRUE, docs |-> AddOrReplace(@.docs, t.docs),
             settings |-> @.settings]]
    [] t.op = "indexSwap" -> SwapEffect(t, e)

Enqueued == {k \in DOMAIN tasks : tasks[k].status = "enqueued"}

Running ==
  pc \notin {"idle", "done", "aborted", "crashed"}

(* a failure the engine state does not explain *)
IsFault(t, err) ==
  err = "internal"

(* the engine processes its oldest enqueued task: it succeeds with its     *)
(* effect, or fails without any effect                                     *)
Engine_ProcessTask ==
  /\ \E k \in Enqueued :
       /\ \A j \in Enqueued : k <= j
       /\ \E err \in {TaskError(tasks[k], engine), "internal"} :
            /\ engine' = IF err = "none" THEN TaskEffect(tasks[k], engine)
                         ELSE engine
            /\ tasks' = [tasks EXCEPT
                           ![k].status = IF err = "none" THEN "succeeded"
                                         ELSE "failed",
                           ![k].error = err,
                           ![k].docs = Corpus(0)]
            /\ faulted' = (faulted \/ (Running /\ tasks[k].step # "delOld"
                                          /\ IsFault(tasks[k], err)))
            /\ delOldFaulted' = (delOldFaulted \/ (Running /\ tasks[k].step = "delOld"
                                                    /\ IsFault(tasks[k], err)))
  /\ UNCHANGED clientVars

(* every document and setting in the engine is old when a run starts *)
Aged(e) ==
  [u \in IndexUids |->
     [exists |-> e[u].exists,
      docs |-> Coalesce({<<d[1], d[2], "old">> : d \in e[u].docs}),
      settings |-> {<<s[1], "old">> : s \in e[u].settings}]]

(* ------------------------------- client -------------------------------- *)

NoRequest == [step |-> "none", op |-> "none", uid |-> "none", from |-> 0, to |-> 0]

Request(op, uid, from, to) ==
  [step |-> pc, op |-> op, uid |-> uid, from |-> from, to |-> to]

Task(op, uid, docs, payload) ==
  [op |-> op, uid |-> uid, docs |-> docs, payload |-> payload, step |-> pc,
   status |-> "enqueued", error |-> "none"]

(* the request is accepted: the engine enqueues a task and answers with its *)
(* taskUid                                                                  *)
Enqueue(t) ==
  LET open == SelectSeq(tasks, LAMBDA x : x.status = "enqueued")
  IN  /\ tasks' = Append(open, t)
      /\ taskUid' = Len(open) + 1

(* the request is rejected (network or HTTP error): the call throws *)
Reject ==
  /\ UNCHANGED <<tasks, taskUid, engine>>

(* client.tasks.waitForTask(taskUid) resolves once the task has reached a   *)
(* terminal status, whichever it is                                         *)
waitForTask_noWait(uid) ==
  TRUE

waitForTask(uid) ==
  tasks[uid].status # "enqueued"

(* what the catch block of deleteIndex does with an error: nothing *)
deleteIndex_rethrow(next) ==
  "aborted"

deleteIndex_catch(next) ==
  next

(* deleteIndex, lines 40-41: the request *)
deleteIndex_request(at, wait, next) ==
  /\ pc = at
  /\ lastReq' = Request("indexDeletion", tempIndexName, 0, 0)
  /\ \/ /\ Enqueue(Task("indexDeletion", tempIndexName, Corpus(0), {}))
        /\ pc' = wait
        /\ UNCHANGED <<engine, faulted, delOldFaulted>>
     \/ /\ Reject
        /\ pc' = deleteIndex_catch(next)
        /\ faulted' = (faulted \/ at = "delStale")
        /\ delOldFaulted' = (delOldFaulted \/ at = "delOld")
  /\ UNCHANGED <<run, documents, settings, i, mainExists, atStart, prev>>
  /\ UNCHANGED <<batches, scrapeVars, mainVars, pageVars, domVars, matchVars>>

(* deleteIndex, lines 42-43: the wait *)
deleteIndex_wait(wait, next) ==
  /\ pc = wait
  /\ waitForTask(taskUid)
  /\ pc' = next
  /\ UNCHANGED <<engine, tasks, run, documents, settings, i, mainExists, taskUid,
                 lastReq, atStart, prev, faulted, delOldFaulted>>
  /\ UNCHANGED <<batches, scrapeVars, mainVars, pageVars, domVars, matchVars>>

(* reindex, line 136: the index the documents are added to *)
addDocuments_indexUid_main ==
  indexName

addDocuments_indexUid ==
  tempIndexName

(* what the run that just ended left behind, as the next run finds it *)
PrevOutcome ==
  CASE pc = "crashed" /\ engine[tempIndexName].exists
         /\ lastReq.step \in {"create", "settings", "add", "probe", "createMain"}
         -> "crashedBeforeSwap"
    [] pc = "done" /\ delOldFaulted /\ engine[tempIndexName].exists
         -> "leftover"
    [] pc = "idle" -> "none"
    [] OTHER -> "other"

(* reindex, lines 117-127: an invocation with its documents and settings,  *)
(* once the engine has no task of the last one left                        *)
reindex_call(docs, s) ==
  /\ pc \in {"idle", "done", "aborted", "crashed"}
  /\ Enqueued = {}
  /\ run' = run + 1
  /\ documents' = docs
  /\ settings' = s
  /\ engine' = Aged(engine)
  /\ atStart' = Aged(engine)
  /\ prev' = PrevOutcome
  /\ pc' = "delStale"
  /\ tasks' = <<>>
  /\ taskUid' = 0
  /\ i' = 0
  /\ mainExists' = FALSE
  /\ lastReq' = NoRequest
  /\ faulted' = FALSE
  /\ delOldFaulted' = FALSE
  /\ batches' = <<>>

(* reindex called with a corpus of one of the sizes tried *)
reindex ==
  /\ run < MaxRuns
  /\ \E n \in CorpusSizes, s \in SettingsChoices : reindex_call(Corpus(n), s)
  /\ UNCHANGED <<scrapeVars, mainVars, pageVars, domVars, matchVars>>

(* the process is killed: its locals are lost, the engine keeps its tasks *)
Crash ==
  /\ Running
  /\ pc' = "crashed"
  /\ documents' = Corpus(0)
  /\ settings' = [defined |-> FALSE, fields |-> {}]
  /\ i' = 0
  /\ mainExists' = FALSE
  /\ taskUid' = 0
  /\ UNCHANGED <<engine, tasks, run, lastReq, atStart, prev, faulted,
                 delOldFaulted>>
  /\ UNCHANGED <<batches, scrapeVars, mainVars, pageVars, domVars, matchVars>>

(* reindex without its step 1 *)
reindex_deleteStale_skipped ==
  /\ pc = "delStale"
  /\ pc' = "create"
  /\ UNCHANGED <<engine, tasks, run, documents, settings, i, mainExists,
                 taskUid, lastReq, atStart, prev, faulted, delOldFaulted>>
  /\ UNCHANGED <<batches, scrapeVars, mainVars, pageVars, domVars, matchVars>>

(* reindex, line 130 *)
reindex_deleteStale ==
  deleteIndex_request("delStale", "delStaleWait", "create")

reindex_deleteStaleWait ==
  deleteIndex_wait("delStaleWait", "create")

(* reindex, line 133: the index createIndex is called for *)
createIndex_indexUid_main ==
  indexName

createIndex_indexUid ==
  tempIndexName

(* createIndex, line 58 *)
createIndex_request ==
  /\ pc = "create"
  /\ lastReq' = Request("indexCreation", createIndex_indexUid, 0, 0)
  /\ \/ /\ Enqueue(Task("indexCreation", createIndex_indexUid, Corpus(0), {}))
        /\ pc' = "createWait"
        /\ UNCHANGED <<engine, faulted>>
     \/ /\ Reject
        /\ pc' = "aborted"
        /\ faulted' = TRUE
  /\ UNCHANGED <<run, documents, settings, i, mainExists, atStart, prev, delOldFaulted>>
  /\ UNCHANGED <<batches, scrapeVars, mainVars, pageVars, domVars, matchVars>>

(* createIndex, lines 59-60 *)
createIndex_wait ==
  /\ pc = "createWait"
  /\ waitForTask(taskUid)
  /\ pc' = "settings"
  /\ UNCHANGED <<engine, tasks, run, documents, settings, i, mainExists, taskUid,
                 lastReq, atStart, prev, faulted, delOldFaulted>>
  /\ UNCHANGED <<batches, scrapeVars, mainVars, pageVars, domVars, matchVars>>

(* createIndex, lines 63-74: reading a field of an undefined settings       *)
(* throws; otherwise the payload holds the fields present                   *)
createIndex_updateSettings ==
  /\ pc = "settings"
  /\ \/ /\ ~settings.defined
        /\ pc' = "aborted"
        /\ faulted' = TRUE
        /\ UNCHANGED <<engine, tasks, taskUid, lastReq>>
     \/ /\ settings.defined
        /\ lastReq' = Request("settingsUpdate", createIndex_indexUid, 0, 0)
        /\ \/ /\ Enqueue(Task("settingsUpdate", createIndex_indexUid, Corpus(0), settings.fields))
              /\ pc' = "settingsWait"
              /\ UNCHANGED <<engine, faulted>>
           \/ /\ Reject
              /\ pc' = "aborted"
              /\ faulted' = TRUE
  /\ UNCHANGED <<run, documents, settings, i, mainExists, atStart, prev, delOldFaulted>>
  /\ UNCHANGED <<batches, scrapeVars, mainVars, pageVars, domVars, matchVars>>

(* createIndex, lines 75-76, and addDocuments, lines 87-90 *)
createIndex_settingsWait ==
  /\ pc = "settingsWait"
  /\ waitForTask(taskUid)
  /\ pc' = "add"
  /\ i' = 0
  /\ UNCHANGED <<engine, tasks, run, documents, settings, mainExists, taskUid,
                 lastReq, atStart, prev, faulted, delOldFaulted>>
  /\ UNCHANGED <<batches, scrapeVars, mainVars, pageVars, domVars, matchVars>>

(* addDocuments, lines 90-92: the next batch, or the end of the loop *)
addDocuments_batch ==
  /\ pc = "add"
  /\ \/ /\ i < length(documents)
        /\ LET batch == slice(documents, i, i + BATCH_SIZE)
           IN  /\ lastReq' = Request("documentAdditionOrUpdate",
                                     addDocuments_indexUid, batch[1], batch[2])
               /\ batches' = Append(batches, batch)
               /\ \/ /\ Enqueue(Task("documentAdditionOrUpdate",
                                     addDocuments_indexUid, batch, {}))
                     /\ pc' = "addWait"
                     /\ UNCHANGED <<engine, faulted>>
                  \/ /\ Reject
                     /\ pc' = "aborted"
                     /\ faulted' = TRUE
     \/ /\ ~(i < length(documents))
        /\ pc' = "probe"
        /\ UNCHANGED <<engine, tasks, taskUid, lastReq, faulted, batches>>
  /\ UNCHANGED <<run, documents, settings, i, mainExists, atStart, prev, delOldFaulted>>
  /\ UNCHANGED <<scrapeVars, mainVars, pageVars, domVars, matchVars>>

(* addDocuments, lines 93-94 and the loop increment *)
addDocuments_wait ==
  /\ pc = "addWait"
  /\ waitForTask(taskUid)
  /\ i' = i + BATCH_SIZE
  /\ pc' = "add"
  /\ UNCHANGED <<engine, tasks, run, documents, settings, mainExists, taskUid,
                 lastReq, atStart, prev, faulted, delOldFaulted>>
  /\ UNCHANGED <<batches, scrapeVars, mainVars, pageVars, domVars, matchVars>>

(* indexExists, lines 27-34, and reindex, lines 139-141: getIndex answers   *)
(* for an existing index; it throws for a missing one and on any error      *)
indexExists ==
  /\ pc = "probe"
  /\ lastReq' = Request("getIndex", indexName, 0, 0)
  /\ \/ /\ engine[indexName].exists
        /\ mainExists' = TRUE
        /\ pc' = "swap"
        /\ UNCHANGED faulted
     \/ /\ mainExists' = FALSE
        /\ pc' = "createMain"
        /\ faulted' = (faulted \/ engine[indexName].exists)
  /\ UNCHANGED <<engine, tasks, run, documents, settings, i, taskUid, atStart,
                 prev, delOldFaulted>>
  /\ UNCHANGED <<batches, scrapeVars, mainVars, pageVars, domVars, matchVars>>

(* reindex, line 144 *)
reindex_createMain ==
  /\ pc = "createMain"
  /\ lastReq' = Request("indexCreation", indexName, 0, 0)
  /\ \/ /\ Enqueue(Task("indexCreation", indexName, Corpus(0), {}))
        /\ pc' = "createMainWait"
        /\ UNCHANGED <<engine, faulted>>
     \/ /\ Reject
        /\ pc' = "aborted"
        /\ faulted' = TRUE
  /\ UNCHANGED <<run, documents, settings, i, mainExists, atStart, prev, delOldFaulted>>
  /\ UNCHANGED <<batches, scrapeVars, mainVars, pageVars, domVars, matchVars>>

(* reindex, line 145 *)
reindex_createMainWait ==
  /\ pc = "createMainWait"
  /\ waitForTask(taskUid)
  /\ pc' = "swap"
  /\ UNCHANGED <<engine, tasks, run, documents, settings, i, mainExists, taskUid,
                 lastReq, atStart, prev, faulted, delOldFaulted>>
  /\ UNCHANGED <<batches, scrapeVars, mainVars, pageVars, domVars, matchVars>>

(* swapIndexes, line 106 *)
swapIndexes_request ==
  /\ pc = "swap"
  /\ lastReq' = Request("indexSwap", indexName, 0, 0)
  /\ \/ /\ Enqueue(Task("indexSwap", indexName, Corpus(0), {}))
        /\ pc' = "swapWait"
        /\ UNCHANGED <<engine, faulted>>
     \/ /\ Reject
        /\ pc' = "aborted"
        /\ faulted' = TRUE
  /\ UNCHANGED <<run, documents, settings, i, mainExists, atStart, prev, delOldFaulted>>
  /\ UNCHANGED <<batches, scrapeVars, mainVars, pageVars, domVars, matchVars>>

(* swapIndexes, lines 107-108 *)
swapIndexes_wait ==
  /\ pc = "swapWait"
  /\ waitForTask(taskUid)
  /\ pc' = "delOld"
  /\ UNCHANGED <<engine, tasks, run, documents, settings, i, mainExists, taskUid,
                 lastReq, atStart, prev, faulted, delOldFaulted>>
  /\ UNCHANGED <<batches, scrapeVars, mainVars, pageVars, domVars, matchVars>>

(* reindex, lines 152-154 *)
reindex_deleteOld ==
  deleteIndex_request("delOld", "delOldWait", "done")

reindex_deleteOldWait ==
  deleteIndex_wait("delOldWait", "done")

(* ----------------------------- scrapePages ----------------------------- *)

(* the values of concurrency tried: a small one and the entry point's *)
Concurrencies == {2, EntryConcurrency}

(* the values of concurrency tried with pages that hold documents *)
SmallConcurrencies == {2, 3}

MaxPages == 3

MaxPageDocs == 2

(* a url is the sequence of its char codes; "Aa", "BB" and "AB" *)
Urls == {<<65, 97>>, <<66, 66>>, <<65, 66>>}

(* the url at position k of a list of distinct urls *)
Url(k) == <<65, 64 + k>>

(* what fetching and scraping a page may give: the fetch rejects, the      *)
(* response is not ok, the parser or the extraction throws, or the page    *)
(* yields a number of documents (possibly none)                            *)
NoResponse == [kind |-> "none", docs |-> 0]

FetchThrows == [kind |-> "fetchThrows", docs |-> 0]

NotOk == [kind |-> "notOk", docs |-> 0]

ParseThrows == [kind |-> "parseThrows", docs |-> 0]

Ok(n) == [kind |-> "ok", docs |-> n]

Responses ==
  {FetchThrows, NotOk, ParseThrows} \cup {Ok(n) : n \in 0..MaxPageDocs}

(* generateObjectId, lines 11-21: the hash of the char codes of base,     *)
(* kept to a 32 bit integer at each step. The 32 bits are held as their    *)
(* high and low 16 bit halves <<hi, lo>>; (hash << 5) - hash + char is     *)
(* 31 * hash + char modulo 2^32                                            *)
Half == 65536

hashStep(hash, char) ==
  LET lo == hash[2] * 31 + char
      hi == hash[1] * 31 + (lo \div Half)
  IN  <<hi % Half, lo % Half>>

RECURSIVE hashOf(_, _)
hashOf(base, hash) ==
  IF base = <<>> THEN hash
  ELSE hashOf(Tail(base), hashStep(hash, Head(base)))

(* Math.abs of the signed 32 bit integer with the bits <<hi, lo>>, as the  *)
(* halves of its magnitude                                                 *)
abs(hash) ==
  IF hash[1] < Half \div 2 THEN hash
  ELSE <<(Half - 1 - hash[1] + (IF hash[2] = 0 THEN 1 ELSE 0)) % Half,
         (Half - hash[2]) % Half>>

(* toString(36) is one to one on the magnitude, which stands for it *)
generateObjectId(base) ==
  abs(hashOf(base, <<0, 0>>))

(* the j-th document scrapePage pushes for the url at position k: its      *)
(* objectID is the hash and the suffix documents.length (lines 278-280)    *)
Document(k, j) ==
  [page |-> k, url |-> urls[k],
   objectID |-> <<generateObjectId(urls[k]), j>>]

(* the documents scrapePage returns for position k, in emission order *)
PageDocuments(k, n) == [j \in 1..n |-> Document(k, j - 1)]

batchOf_skipping(from) ==
  {k \in DOMAIN urls : from < k /\ k < from + concurrency}

(* urls.slice(i, i + concurrency), as the positions of its urls in urls *)
batchOf(from) ==
  {k \in DOMAIN urls : from < k /\ k <= from + concurrency}

Settled(k) ==
  page[k] \in {"returned", "caught"}

(* Promise.all over the callbacks of the batch resolves when each of them  *)
(* has settled; no callback rejects, its catch block returns []           *)
PromiseAll_any(batch) ==
  \E k \in batch : Settled(k)

PromiseAll(batch) ==
  \A k \in batch : Settled(k)

(* the results array of Promise.all: one entry per url of the batch, in    *)
(* the order of the batch, whatever the order the callbacks ended in       *)
PromiseAll_results_bySettling(from) ==
  SelectSeq(completion, LAMBDA k : k \in batchOf(from))

PromiseAll_results(from) ==
  [j \in 1..Cardinality(batchOf(from)) |-> from + j]

(* scrapePage, lines 119-125 and 127-302: a response that is not ok gives  *)
(* no documents, a page gives the documents extracted from it              *)
scrapePage_noStatusCheck(r) ==
  IF r.kind = "notOk" THEN 1 ELSE r.docs

scrapePage(r) ==
  IF r.kind = "notOk" THEN 0 ELSE r.docs

RECURSIVE Flatten(_)
Flatten(seqs) ==
  IF seqs = <<>> THEN <<>> ELSE Head(seqs) \o Flatten(Tail(seqs))

(* scrapePages, lines 318-321: the next wave; batch.map starts the         *)
(* callback of every url of the batch, each of which runs up to its fetch  *)
scrapePages_batch ==
  /\ spc = "loop"
  /\ si < Len(urls)
  /\ page' = [k \in DOMAIN urls |->
                IF k \in batchOf(si) THEN "inflight" ELSE page[k]]
  /\ spc' = "await"
  /\ UNCHANGED <<urls, concurrency, si, processed, allDocuments, web,
                 response, results, completion>>
  /\ UNCHANGED <<reindexVars, mainVars, pageVars, domVars, matchVars>>

(* scrapePages, lines 322-335: the callback of one url ends; scrapePage    *)
(* returned its documents (none for a response that is not ok), or the     *)
(* fetch, the parsing or the extraction threw and the catch block          *)
(* returned []                                                             *)
scrapePages_callback ==
  /\ \E k \in DOMAIN urls, r \in web :
       /\ page[k] = "inflight"
       /\ response' = [response EXCEPT ![k] = r]
       /\ IF r.kind \in {"fetchThrows", "parseThrows"}
          THEN /\ page' = [page EXCEPT ![k] = "caught"]
               /\ results' = [results EXCEPT ![k] = 0]
          ELSE /\ page' = [page EXCEPT ![k] = "returned"]
               /\ results' = [results EXCEPT ![k] = scrapePage(r)]
       /\ completion' = IF results'[k] > 0 THEN Append(completion, k)
                        ELSE completion
  /\ processed' = processed + 1
  /\ UNCHANGED <<urls, concurrency, spc, si, allDocuments, web>>
  /\ UNCHANGED <<reindexVars, mainVars, pageVars, domVars, matchVars>>

(* scrapePages, lines 337-342: Promise.all resolves with the results in    *)
(* the order of the batch, and they are appended to allDocuments           *)
scrapePages_collect ==
  /\ spc = "await"
  /\ PromiseAll(batchOf(si))
  /\ allDocuments' =
       allDocuments \o
         Flatten([j \in DOMAIN PromiseAll_results(si) |->
                    PageDocuments(PromiseAll_results(si)[j],
                                  results[PromiseAll_results(si)[j]])])
  /\ si' = si + concurrency
  /\ spc' = "loop"
  /\ UNCHANGED <<urls, concurrency, page, processed, web, response, results,
                 completion>>
  /\ UNCHANGED <<reindexVars, mainVars, pageVars, domVars, matchVars>>

(* scrapePages, lines 318 and 344: the loop ends *)
scrapePages_return ==
  /\ spc = "loop"
  /\ ~(si < Len(urls))
  /\ spc' = "done"
  /\ UNCHANGED <<urls, concurrency, si, page, processed, allDocuments, web,
                 response, results, completion>>
  /\ UNCHANGED <<reindexVars, mainVars, pageVars, domVars, matchVars>>

(* scrapePages, lines 313-315: the locals at the start of a call *)
ScrapeLocals ==
  /\ spc = "loop"
  /\ si = 0
  /\ page = [k \in DOMAIN urls |-> "idle"]
  /\ processed = 0
  /\ allDocuments = <<>>
  /\ response = [k \in DOMAIN urls |-> NoResponse]
  /\ results = [k \in DOMAIN urls |-> 0]
  /\ completion = <<>>

(* scrapePages, lines 308-315: a call with a long list of distinct urls,   *)
(* none of which can be scraped (the fetch rejects or is not ok)           *)
ScrapeInit ==
  /\ \E n \in 0..MaxUrls : urls = [k \in 1..n |-> Url(k)]
  /\ concurrency \in Concurrencies
  /\ web = {FetchThrows, NotOk}
  /\ ScrapeLocals

(* scrapePages, lines 308-315: a call with a short list of urls, in which  *)
(* a url may occur twice, and any response to each fetch                   *)
CorpusInit ==
  /\ \E n \in 0..MaxPages : urls \in [1..n -> Urls]
  /\ concurrency \in SmallConcurrencies
  /\ web = Responses
  /\ ScrapeLocals

ReindexInit ==
  /\ engine = [u \in IndexUids |-> Absent]
  /\ tasks = <<>>
  /\ pc = "idle"
  /\ run = 0
  /\ documents = Corpus(0)
  /\ settings = [defined |-> FALSE, fields |-> {}]
  /\ i = 0
  /\ mainExists = FALSE
  /\ taskUid = 0
  /\ lastReq = NoRequest
  /\ atStart = [u \in IndexUids |-> Absent]
  /\ prev = "none"
  /\ faulted = FALSE
  /\ delOldFaulted = FALSE
  /\ batches = <<>>

ScrapeIdle ==
  /\ urls = <<>>
  /\ concurrency = EntryConcurrency
  /\ spc = "idle"
  /\ si = 0
  /\ page = <<>>
  /\ processed = 0
  /\ allDocuments = <<>>
  /\ web = {}
  /\ response = <<>>
  /\ results = <<>>
  /\ completion = <<>>

(* main is not running *)
MainIdle ==
  /\ configPaths = <<>>
  /\ ci = 0
  /\ mpc = "idle"
  /\ processResults = <<>>
  /\ exitCode = "none"

(* scrapePage is not running *)
PageIdle ==
  /\ pageUrl = <<>>
  /\ pageRank = 1
  /\ globalLvl = <<>>
  /\ lvlConfig = <<>>
  /\ breadcrumb = ""
  /\ pageTags = {}
  /\ allElements = <<>>
  /\ ppc = "idle"
  /\ ei = 0
  /\ currentHierarchy = <<>>
  /\ lastHeadingAnchor = <<>>
  /\ contentIndex = 0
  /\ pageDocuments = <<>>
  /\ compared = <<>>
  /\ priorities = <<>>

(* no page is being fetched *)
DomIdle ==
  /\ env = [BASIC_AUTH_USERNAME |-> "", BASIC_AUTH_PASSWORD |-> ""]
  /\ requests = <<>>
  /\ document = <<>>
  /\ dpc = "idle"

(* matchStartUrl is not running *)
MatchIdle ==
  /\ startUrls = <<>>
  /\ selectors = <<>>
  /\ matchUrl = <<>>
  /\ matched = <<>>
  /\ selected = <<>>
  /\ matchPc = "idle"

Init ==
  /\ PageIdle
  /\ DomIdle
  /\ MatchIdle
  /\ ReindexInit
  /\ ScrapeIdle
  /\ MainIdle

Next ==
  \/ reindex
  \/ Crash
  \/ Engine_ProcessTask
  \/ reindex_deleteStale
  \/ reindex_deleteStaleWait
  \/ createIndex_request
  \/ createIndex_wait
  \/ createIndex_updateSettings
  \/ createIndex_settingsWait
  \/ addDocuments_batch
  \/ addDocuments_wait
  \/ indexExists
  \/ reindex_createMain
  \/ reindex_createMainWait
  \/ swapIndexes_request
  \/ swapIndexes_wait
  \/ reindex_deleteOld
  \/ reindex_deleteOldWait

Spec == Init /\ [][Next]_vars

InitScrape ==
  /\ PageIdle
  /\ DomIdle
  /\ MatchIdle
  /\ ReindexInit
  /\ ScrapeInit
  /\ MainIdle

NextScrape ==
  \/ scrapePages_batch
  \/ scrapePages_callback
  \/ scrapePages_collect
  \/ scrapePages_return

SpecScrape == InitScrape /\ [][NextScrape]_vars

InitCorpus ==
  /\ PageIdle
  /\ DomIdle
  /\ MatchIdle
  /\ ReindexInit
  /\ CorpusInit
  /\ MainIdle

SpecCorpus == InitCorpus /\ [][NextScrape]_vars


(* ------------------------- main and processConfig ---------------------- *)

MaxConfigs == 2

(* shouldSkipUrl, lines 164-166 of config.ts *)
startsWith(url, stopUrl) ==
  /\ Len(stopUrl) <= Len(url)
  /\ SubSeq(url, 1, Len(stopUrl)) = stopUrl

(* String.prototype.includes *)
includes(str, searchString) ==
  \E from \in 0..(Len(str) - Len(searchString)) :
    SubSeq(str, from + 1, from + Len(searchString)) = searchString

shouldSkipUrl_includes(url, stopUrls) ==
  \E stopUrl \in stopUrls : includes(url, stopUrl)

shouldSkipUrl(url, stopUrls) ==
  \E stopUrl \in stopUrls : startsWith(url, stopUrl)

(* a configuration file: whether loadConfig accepts it, the urls its       *)
(* sitemaps or start_urls give, its stop_urls and its custom_settings      *)
Config(valid, found, stopUrls, customSettings) ==
  [valid |-> valid, urls |-> found, stop_urls |-> stopUrls,
   custom_settings |-> customSettings]

ReadmeSettings ==
  [defined |-> TRUE, fields |-> {"searchableAttributes", "rankingRules"}]

NoSettings == [defined |-> FALSE, fields |-> {}]

(* the configurations tried: one loadConfig rejects, one whose urls all     *)
(* match stop_urls, one with three urls of which one matches stop_urls,    *)
(* one with one url, no stop_urls and no custom_settings                   *)
ConfigChoices ==
  { Config(FALSE, <<>>, {}, NoSettings),
    Config(TRUE, <<<<65, 97>>, <<65, 66>>>>, {<<65>>}, ReadmeSettings),
    Config(TRUE, <<<<65, 97>>, <<66, 66>>, <<65, 66>>>>, {<<66>>},
           ReadmeSettings),
    Config(TRUE, <<<<65, 97>>>>, {}, NoSettings) }

(* the responses tried for the pages of a configuration *)
MainResponses == {FetchThrows, Ok(0), Ok(1)}

(* a ProcessResult; error is "" where the code leaves it undefined *)
ProcessResult(pages, docs, error) ==
  [pages |-> pages, documents |-> docs, error |-> error]

(* processConfig returns and main pushes its result, lines 386-387 *)
main_push(result) ==
  /\ processResults' = Append(processResults, result)
  /\ mpc' = "idle"

(* main, line 386: the await of processConfig; the loop goes on once the   *)
(* result of the configuration it started has been pushed                  *)
main_await_none == TRUE

main_await == Len(processResults) = ci

(* main, lines 383-386: the next configuration; processConfig is called *)
main_processConfig ==
  /\ exitCode = "none"
  /\ main_await
  /\ ci < Len(configPaths)
  /\ ci' = ci + 1
  /\ mpc' = "load"
  /\ UNCHANGED <<configPaths, processResults, exitCode>>
  /\ UNCHANGED <<pageVars, domVars, matchVars>>
  /\ UNCHANGED <<reindexVars, scrapeVars>>

(* processConfig, lines 276-282 and 345-354: loadConfig, which throws for  *)
(* a file it cannot read or that validateConfig rejects                    *)
processConfig_loadConfig ==
  /\ mpc = "load"
  /\ IF configPaths[ci].valid
     THEN /\ mpc' = "urls"
          /\ UNCHANGED processResults
     ELSE main_push(ProcessResult(0, 0, "thrown"))
  /\ UNCHANGED <<configPaths, ci, exitCode>>
  /\ UNCHANGED <<pageVars, domVars, matchVars>>
  /\ UNCHANGED <<reindexVars, scrapeVars>>

(* processConfig, lines 286-302: the urls left after the stop_urls filter *)
Filtered(config) ==
  SelectSeq(config.urls, LAMBDA url : ~shouldSkipUrl(url, config.stop_urls))

(* scrapePages, lines 308-315: a call *)
scrapePages_call(u, c) ==
  /\ urls' = u
  /\ concurrency' = c
  /\ web' = MainResponses
  /\ spc' = "loop"
  /\ si' = 0
  /\ page' = [k \in DOMAIN u |-> "idle"]
  /\ processed' = 0
  /\ allDocuments' = <<>>
  /\ response' = [k \in DOMAIN u |-> NoResponse]
  /\ results' = [k \in DOMAIN u |-> 0]
  /\ completion' = <<>>

(* processConfig, lines 284-319: without urls it returns the error         *)
(* "No URLs to scrape", else it calls scrapePages                          *)
processConfig_urls ==
  /\ mpc = "urls"
  /\ IF Len(Filtered(configPaths[ci])) = 0
     THEN /\ main_push(ProcessResult(0, 0, "No URLs to scrape"))
          /\ UNCHANGED scrapeVars
     ELSE /\ scrapePages_call(Filtered(configPaths[ci]), EntryConcurrency)
          /\ mpc' = "scrape"
          /\ UNCHANGED processResults
  /\ UNCHANGED <<configPaths, ci, exitCode>>
  /\ UNCHANGED <<pageVars, domVars, matchVars>>
  /\ UNCHANGED reindexVars

(* processConfig, line 323: the corpus is worth indexing *)
processConfig_always(docs) == TRUE

processConfig_nonEmpty(docs) == Len(docs) # 0

(* processConfig, lines 319-336: scrapePages has returned; without         *)
(* documents it returns the error "No documents extracted", else it calls  *)
(* reindex                                                                 *)
processConfig_documents ==
  /\ mpc = "scrape"
  /\ spc = "done"
  /\ IF processConfig_nonEmpty(allDocuments)
     THEN /\ reindex_call(Corpus(Len(allDocuments)),
                          configPaths[ci].custom_settings)
          /\ mpc' = "reindex"
          /\ UNCHANGED processResults
     ELSE /\ main_push(ProcessResult(Len(urls), 0, "No documents extracted"))
          /\ UNCHANGED reindexVars
  /\ UNCHANGED <<configPaths, ci, exitCode>>
  /\ UNCHANGED <<pageVars, domVars, matchVars>>
  /\ UNCHANGED scrapeVars

(* processConfig, lines 336-344: reindex has returned *)
processConfig_return ==
  /\ mpc = "reindex"
  /\ pc = "done"
  /\ main_push(ProcessResult(Len(urls), Len(allDocuments), ""))
  /\ UNCHANGED <<configPaths, ci, exitCode>>
  /\ UNCHANGED <<pageVars, domVars, matchVars>>
  /\ UNCHANGED <<reindexVars, scrapeVars>>

(* processConfig, lines 345-354: reindex has thrown *)
processConfig_catch ==
  /\ mpc = "reindex"
  /\ pc = "aborted"
  /\ main_push(ProcessResult(0, 0, "thrown"))
  /\ UNCHANGED <<configPaths, ci, exitCode>>
  /\ UNCHANGED <<pageVars, domVars, matchVars>>
  /\ UNCHANGED <<reindexVars, scrapeVars>>

(* main, lines 398-411: r.error is truthy for some result *)
hasErrors_never(rs) == FALSE

hasErrors(rs) ==
  \E r \in DOMAIN rs : rs[r].error # ""

(* main, lines 383 and 390-421: the loop has ended; the summary and the    *)
(* exit code                                                               *)
main_exit ==
  /\ exitCode = "none"
  /\ main_await
  /\ ~(ci < Len(configPaths))
  /\ exitCode' = IF hasErrors(processResults) THEN "nonzero" ELSE "zero"
  /\ mpc' = "exited"
  /\ UNCHANGED <<configPaths, ci, processResults>>
  /\ UNCHANGED <<pageVars, domVars, matchVars>>
  /\ UNCHANGED <<reindexVars, scrapeVars>>

(* main, lines 361-365: at least one configuration path is given *)
MainInit ==
  /\ \E n \in 1..MaxConfigs : configPaths \in [1..n -> ConfigChoices]
  /\ ci = 0
  /\ mpc = "idle"
  /\ processResults = <<>>
  /\ exitCode = "none"

InitMain ==
  /\ PageIdle
  /\ DomIdle
  /\ MatchIdle
  /\ ReindexInit
  /\ ScrapeIdle
  /\ MainInit

NextMain ==
  \/ main_processConfig
  \/ processConfig_loadConfig
  \/ processConfig_urls
  \/ scrapePages_batch
  \/ scrapePages_callback
  \/ scrapePages_collect
  \/ scrapePages_return
  \/ processConfig_documents
  \/ Engine_ProcessTask
  \/ reindex_deleteStale
  \/ reindex_deleteStaleWait
  \/ createIndex_request
  \/ createIndex_wait
  \/ createIndex_updateSettings
  \/ createIndex_settingsWait
  \/ addDocuments_batch
  \/ addDocuments_wait
  \/ indexExists
  \/ reindex_createMain
  \/ reindex_createMainWait
  \/ swapIndexes_request
  \/ swapIndexes_wait
  \/ reindex_deleteOld
  \/ reindex_deleteOldWait
  \/ processConfig_return
  \/ processConfig_catch
  \/ main_exit

SpecMain == InitMain /\ [][NextMain]_vars


(* ------------------------------ scrapePage ----------------------------- *)

MaxElements == 3

RankUnit == 1000000000

WeightUnit == 1000

MinContentLength == 10

Levels == 0..6

(* an element matched by the selector of heading level `level`, with its   *)
(* whitespace-normalized text and its id (<<>>: none)                      *)
Heading(level, text, id) ==
  [kind |-> "heading", level |-> level, text |-> text, id |-> id,
   textContent |-> <<>>, isText |-> FALSE]

(* an element matched by the text selector only, with the char codes of    *)
(* its textContent                                                         *)
TextElement(textContent) ==
  [kind |-> "text", level |-> 0, text |-> "", id |-> <<>>,
   textContent |-> textContent, isText |-> TRUE]

(* an element matched by the selector of a heading level and by the text   *)
(* selector as well                                                        *)
HeadingAndText(level, text, textContent) ==
  [kind |-> "heading", level |-> level, text |-> text, id |-> <<>>,
   textContent |-> textContent, isText |-> TRUE]

Chars(n) == [j \in 1..n |-> 97]

(* the elements tried: headings of every level, a heading without text,    *)
(* a heading with the id "x", a heading that the text selector matches     *)
(* too, and text elements whose text is empty, has 10 or 11 chars, or has  *)
(* 12 chars of which whitespace-normalization leaves 10 or 11              *)
Elements ==
  {Heading(k, t, <<>>) : k \in 1..3, t \in {"a", "b"}}
    \cup {Heading(k, "a", <<>>) : k \in 4..6}
    \cup {Heading(2, "", <<>>), Heading(2, "a", <<120>>)}
    \cup {HeadingAndText(3, "c", Chars(MinContentLength + 1))}
    \cup {TextElement(Chars(n)) :
            n \in {0, MinContentLength, MinContentLength + 1}}
    \cup {TextElement(<<32>> \o Chars(MinContentLength) \o <<32>>),
          TextElement(Chars(5) \o <<32, 32>> \o Chars(5))}

(* replace(/\s+/g, " "), lines 32, 37 and 254 *)
RECURSIVE collapse(_)
collapse(t) ==
  IF Len(t) <= 1 THEN t
  ELSE IF t[1] = 32 /\ t[2] = 32 THEN collapse(Tail(t))
       ELSE <<t[1]>> \o collapse(Tail(t))

(* trim(), of a text whose whitespace has been collapsed *)
trim(t) ==
  LET from == IF t # <<>> /\ t[1] = 32 THEN 2 ELSE 1
      to == IF Len(t) >= from /\ t[Len(t)] = 32 THEN Len(t) - 1 ELSE Len(t)
  IN  SubSeq(t, from, to)

(* getTextContent, lines 27-38, of an element that is not a table row *)
getTextContent(element) ==
  trim(collapse(element.textContent))

(* computeLevelWeight, lines 81-90 *)
computeLevelWeight(hierarchy) ==
  IF \A l \in Levels : hierarchy[l] = "" THEN 0
  ELSE LET deepest == CHOOSE l \in Levels :
                        /\ hierarchy[l] # ""
                        /\ \A m \in Levels : m > l => hierarchy[m] = ""
       IN  (7 - deepest) * 10 + 20

(* item_priority of a content document, line 295 *)
item_priority(rank, levelWeight, positionDesc) ==
  rank * RankUnit + levelWeight * WeightUnit + positionDesc

(* item_priority of the document of a page without text elements, line 207 *)
item_priority_lvl1(rank) ==
  rank * RankUnit + 90 * WeightUnit

(* generateObjectId, line 12: base *)
base(u, anchor) ==
  IF anchor = <<>> THEN u ELSE u \o <<35>> \o anchor

(* scrapePage, line 131: url.split("#")[0] *)
urlWithoutAnchor(u) ==
  LET hashes == {k \in DOMAIN u : u[k] = 35}
  IN  IF hashes = {} THEN u
      ELSE SubSeq(u, 1, (CHOOSE k \in hashes : \A h \in hashes : k <= h) - 1)

(* scrapePage, line 274: docUrl *)
docUrl_always(u, anchor) ==
  urlWithoutAnchor(u) \o <<35>> \o anchor

docUrl(u, anchor) ==
  IF anchor = <<>> THEN urlWithoutAnchor(u)
  ELSE urlWithoutAnchor(u) \o <<35>> \o anchor

(* scrapePage, line 276: positionDesc *)
positionDesc_ascending(totalElements, index) ==
  index + 1

positionDesc(totalElements, index) ==
  totalElements - index

(* scrapePage, lines 196 and 215: the lvl0 of the page *)
hierarchy_lvl0_global(globalLvl0, lvl0Config) ==
  globalLvl0

hierarchy_lvl0(globalLvl0, lvl0Config) ==
  IF globalLvl0 # "" THEN globalLvl0 ELSE lvl0Config.default_value

(* scrapePage, lines 258-261: clear lower levels *)
clearLower_fromNext(hierarchy, level) ==
  [l \in Levels |-> IF l > level + 1 THEN "" ELSE hierarchy[l]]

clearLower(hierarchy, level) ==
  [l \in Levels |-> IF l > level THEN "" ELSE hierarchy[l]]

(* scrapePage, line 272: the content is worth a document *)
longEnough_orEqual(content) ==
  content # <<>> /\ Len(content) >= MinContentLength

longEnough(content) ==
  content # <<>> /\ Len(content) > MinContentLength

(* scrapePage, line 279: the suffix of the objectID *)
objectIdSuffix_none(docs) == 0

objectIdSuffix(docs) == Len(docs)

(* a || b of two strings *)
Or(a, b) == IF a # "" THEN a ELSE b

(* getSelectorConfig, config.ts lines 154-159: a selector given as a       *)
(* string has neither global nor default_value                             *)
SelectorConfig(global, default_value) ==
  [global |-> global, default_value |-> default_value]

(* the lvl0 and lvl1 selectors tried: lvl0 global or not, lvl1 global or  *)
(* not, with a default_value or without                                    *)
LvlConfigs ==
  { [l \in 0..1 |-> IF l = 0 THEN c0 ELSE c1] :
      c0 \in {SelectorConfig(FALSE, ""), SelectorConfig(TRUE, "")},
      c1 \in {SelectorConfig(g, d) : g \in BOOLEAN, d \in {"", "d"}} }

(* scrapePage, lines 250-252: the element matches a heading selector *)
isHeading_unlessText(element) ==
  element.kind = "heading" /\ ~element.isText

isHeading(element) ==
  element.kind = "heading"

matchesTextSelector_only(element) ==
  element.kind = "text"

(* scrapePage, lines 184 and 269: the element matches the text selector *)
matchesTextSelector(element) ==
  element.isText

(* extractLevelValue, lines 65-75, for the selector of a heading level:    *)
(* the text of the first element it matches, else its default_value        *)
extractLevelValue(elements, level, config) ==
  LET matches == SelectSeq(elements, LAMBDA e : e.kind = "heading"
                                                  /\ e.level = level)
  IN  Or(IF matches = <<>> THEN "" ELSE matches[1].text,
         config.default_value)

(* scrapePage, lines 184-222 and 244-246: a page without text elements     *)
(* gives one document of type lvl1 if it has a lvl1, else the walk starts  *)
scrapePage_start ==
  /\ ppc = "start"
  /\ IF \A e \in DOMAIN allElements : ~matchesTextSelector(allElements[e])
     THEN LET lvl1 == Or(globalLvl[1],
                         extractLevelValue(allElements, 1, lvlConfig[1]))
          IN  /\ pageDocuments' =
                   IF lvl1 = "" THEN <<>>
                   ELSE << [objectID |-> <<generateObjectId(pageUrl)>>,
                            url |-> pageUrl,
                            url_without_anchor |-> urlWithoutAnchor(pageUrl),
                            anchor |-> <<>>,
                            content |-> <<>>,
                            type |-> "lvl1",
                            hierarchy |-> [l \in Levels |->
                                             IF l = 0
                                             THEN hierarchy_lvl0(globalLvl[0],
                                                                 lvlConfig[0])
                                             ELSE IF l = 1 THEN lvl1 ELSE ""],
                            breadcrumb |-> breadcrumb,
                            tags |-> pageTags,
                            item_priority |-> item_priority_lvl1(pageRank)] >>
              /\ ppc' = "returned"
              /\ UNCHANGED <<currentHierarchy, ei>>
     ELSE /\ currentHierarchy' = [l \in Levels |->
                                    IF l = 0
                                    THEN hierarchy_lvl0(globalLvl[0],
                                                        lvlConfig[0])
                                    ELSE IF l = 1 THEN globalLvl[1] ELSE ""]
          /\ ei' = 1
          /\ ppc' = "walk"
          /\ UNCHANGED pageDocuments
  /\ lastHeadingAnchor' = <<>>
  /\ contentIndex' = 0
  /\ UNCHANGED <<pageUrl, pageRank, globalLvl, lvlConfig, breadcrumb, pageTags,
                 allElements, compared,
                 priorities>>
  /\ UNCHANGED <<reindexVars, scrapeVars, mainVars, domVars, matchVars>>

(* scrapePage, lines 248-267: the element is a heading *)
scrapePage_heading ==
  /\ ppc = "walk"
  /\ ei <= Len(allElements)
  /\ isHeading(allElements[ei])
  /\ currentHierarchy' =
       clearLower([currentHierarchy EXCEPT
                     ![allElements[ei].level] = allElements[ei].text],
                  allElements[ei].level)
  /\ lastHeadingAnchor' = allElements[ei].id
  /\ ei' = ei + 1
  /\ UNCHANGED <<pageUrl, pageRank, globalLvl, lvlConfig, breadcrumb, pageTags,
                 allElements, ppc, contentIndex,
                 pageDocuments, compared, priorities>>
  /\ UNCHANGED <<reindexVars, scrapeVars, mainVars, domVars, matchVars>>

(* scrapePage, lines 269-299: the element is a text element *)
scrapePage_text ==
  /\ ppc = "walk"
  /\ ei <= Len(allElements)
  /\ ~isHeading(allElements[ei])
  /\ matchesTextSelector(allElements[ei])
  /\ LET content == getTextContent(allElements[ei])
     IN  IF longEnough(content)
         THEN /\ pageDocuments' =
                   Append(pageDocuments,
                     [objectID |->
                        <<generateObjectId(base(pageUrl, lastHeadingAnchor)),
                          objectIdSuffix(pageDocuments)>>,
                      url |-> docUrl(pageUrl, lastHeadingAnchor),
                      url_without_anchor |-> urlWithoutAnchor(pageUrl),
                      anchor |-> lastHeadingAnchor,
                      content |-> content,
                      type |-> "content",
                      hierarchy |-> currentHierarchy,
                      breadcrumb |-> breadcrumb,
                      tags |-> pageTags,
                      item_priority |->
                        item_priority(pageRank,
                                      computeLevelWeight(currentHierarchy),
                                      positionDesc(Len(allElements),
                                                   contentIndex))])
              /\ contentIndex' = contentIndex + 1
         ELSE UNCHANGED <<pageDocuments, contentIndex>>
  /\ ei' = ei + 1
  /\ UNCHANGED <<pageUrl, pageRank, globalLvl, lvlConfig, breadcrumb, pageTags,
                 allElements, ppc,
                 currentHierarchy, lastHeadingAnchor, compared, priorities>>
  /\ UNCHANGED <<reindexVars, scrapeVars, mainVars, domVars, matchVars>>

(* scrapePage, lines 248 and 302: the walk has ended *)
scrapePage_return ==
  /\ ppc = "walk"
  /\ ~(ei <= Len(allElements))
  /\ ppc' = "returned"
  /\ UNCHANGED <<pageUrl, pageRank, globalLvl, lvlConfig, breadcrumb, pageTags,
                 allElements, ei,
                 currentHierarchy, lastHeadingAnchor, contentIndex,
                 pageDocuments, compared, priorities>>
  /\ UNCHANGED <<reindexVars, scrapeVars, mainVars, domVars, matchVars>>

(* scrapePage, lines 113-184: a call for a page with its elements in       *)
(* document order and its global lvl0 and lvl1                             *)
PageInit ==
  /\ pageUrl = <<65, 97>>
  /\ pageRank = 1
  /\ lvlConfig \in LvlConfigs
  /\ \E n \in 0..MaxElements : allElements \in [1..n -> Elements]
  /\ globalLvl =
       [l \in 0..1 |->
          IF ~lvlConfig[l].global THEN ""
          ELSE IF l = 0 THEN "g"
               ELSE extractLevelValue(allElements, 1, lvlConfig[1])]
  /\ breadcrumb = ""
  /\ pageTags = {}
  /\ ppc = "start"
  /\ ei = 0
  /\ currentHierarchy = <<>>
  /\ lastHeadingAnchor = <<>>
  /\ contentIndex = 0
  /\ pageDocuments = <<>>
  /\ compared = <<>>
  /\ priorities = <<>>

InitPage ==
  /\ PageInit
  /\ DomIdle
  /\ MatchIdle
  /\ ReindexInit
  /\ ScrapeIdle
  /\ MainIdle

NextPage ==
  \/ scrapePage_start
  \/ scrapePage_heading
  \/ scrapePage_text
  \/ scrapePage_return

SpecPage == InitPage /\ [][NextPage]_vars


(* ----------------------------- item_priority --------------------------- *)

(* the page_rank values tried *)
PageRanks == {1, 2}

(* a page with more candidate elements than one step of the level weight   *)
(* is worth                                                                *)
LargePage == 10 * WeightUnit + 2

(* the numbers of candidate elements (allElements.length) tried *)
PageSizes == {2, 3, LargePage}

(* a hierarchy with text at the levels 0..deepest *)
Filled(deepest) ==
  [l \in Levels |-> IF l <= deepest THEN "t" ELSE ""]

Hierarchies ==
  {Filled(deepest) : deepest \in Levels}
    \cup {[l \in Levels |-> IF l = 3 THEN "t" ELSE ""]}

(* what item_priority is computed from: the page of the document and its   *)
(* rank, the hierarchy at the push, allElements.length and contentIndex    *)
ContentInputs ==
  [page : {1, 2}, pageRank : PageRanks, type : {"content"},
   hierarchy : Hierarchies, totalElements : PageSizes,
   contentIndex : {0, 1, LargePage - 1}]

(* the document of a page without text elements: lvl1 and maybe lvl0 *)
Lvl1Inputs ==
  [page : {1, 2}, pageRank : PageRanks, type : {"lvl1"},
   hierarchy : {Filled(1), [l \in Levels |-> IF l = 1 THEN "t" ELSE ""]},
   totalElements : {2}, contentIndex : {0}]

(* two documents one corpus can hold: contentIndex counts the documents    *)
(* pushed before, so it is less than allElements.length; the documents of  *)
(* one page share its rank and its elements and differ in contentIndex;    *)
(* a lvl1 document is the only document of its page                        *)
Comparable(d1, d2) ==
  /\ d1.contentIndex < d1.totalElements
  /\ d2.contentIndex < d2.totalElements
  /\ d1.page = d2.page =>
       /\ d1.pageRank = d2.pageRank
       /\ d1.totalElements = d2.totalElements
       /\ d1.contentIndex # d2.contentIndex
       /\ d1.type = "content" /\ d2.type = "content"

(* lines 207 and 275-295: the item_priority of a document *)
priorityOf(d) ==
  IF d.type = "lvl1" THEN item_priority_lvl1(d.pageRank)
  ELSE item_priority(d.pageRank, computeLevelWeight(d.hierarchy),
                     d.totalElements - d.contentIndex)

(* scrapePage, lines 207 and 295, for each of the two documents *)
scrapePage_priority ==
  /\ priorities = <<>>
  /\ priorities' = <<priorityOf(compared[1]), priorityOf(compared[2])>>
  /\ UNCHANGED <<pageUrl, pageRank, globalLvl, lvlConfig, breadcrumb, pageTags,
                 allElements, ppc, ei,
                 currentHierarchy, lastHeadingAnchor, contentIndex,
                 pageDocuments, compared>>
  /\ UNCHANGED <<reindexVars, scrapeVars, mainVars, domVars, matchVars>>

PriorityInit ==
  /\ pageUrl = <<>>
  /\ pageRank = 1
  /\ globalLvl = <<>>
  /\ lvlConfig = <<>>
  /\ breadcrumb = ""
  /\ pageTags = {}
  /\ allElements = <<>>
  /\ ppc = "idle"
  /\ ei = 0
  /\ currentHierarchy = <<>>
  /\ lastHeadingAnchor = <<>>
  /\ contentIndex = 0
  /\ pageDocuments = <<>>
  /\ \E d1 \in ContentInputs \cup Lvl1Inputs,
        d2 \in ContentInputs \cup Lvl1Inputs :
       /\ Comparable(d1, d2)
       /\ compared = <<d1, d2>>
  /\ priorities = <<>>

InitPriority ==
  /\ PriorityInit
  /\ DomIdle
  /\ MatchIdle
  /\ ReindexInit
  /\ ScrapeIdle
  /\ MainIdle

NextPriority ==
  scrapePage_priority

SpecPriority == InitPriority /\ [][NextPriority]_vars

(* ------------------------------ properties ----------------------------- *)

Live == engine[indexName]

Shadow == engine[tempIndexName]

(* the documents of an index that holds exactly the corpus of the run *)
CorpusDocs == {documents}

Held == IF taskUid \in DOMAIN tasks THEN tasks[taskUid]
        ELSE Task("none", "none", Corpus(0), {})

(* the run is at a step strictly before the swap has taken effect *)
PreSwap ==
  \/ pc \in {"delStale", "delStaleWait", "create", "createWait", "settings",
             "settingsWait", "add", "addWait", "probe", "createMain",
             "createMainWait", "swap"}
  \/ pc = "swapWait" /\ Held.status # "succeeded"

(* the run threw before the swap request was issued *)
AbortedBeforeSwap ==
  pc = "aborted" /\ lastReq.step # "swap"

(* this step is the engine processing the swap of the run with success *)
SwapTakesEffect ==
  /\ pc = "swapWait"
  /\ Held.op = "indexSwap"
  /\ Held.status = "enqueued"
  /\ tasks'[taskUid].status = "succeeded"

(* this step issues an engine request *)
Issues ==
  lastReq' # lastReq /\ lastReq' # NoRequest

(* this step issues a request that the engine rejects *)
Rejected ==
  Issues /\ tasks' = tasks

(* C1: at every step of a run strictly before the swap the live index      *)
(* holds the documents it held when the run started, and the step in which *)
(* the swap takes effect leaves the live index with the documents the      *)
(* shadow index held just before it                                        *)
C1_LiveUnchangedUntilSwap ==
  /\ [](PreSwap => Live.docs = atStart[indexName].docs)
  /\ [][SwapTakesEffect => Live'.docs = Shadow.docs]_vars

C1_Witness ==
  /\ pc = "delOld"
  /\ Held.op = "indexSwap" /\ Held.status = "succeeded"
  /\ atStart[indexName].docs # {}
  /\ Live.docs = CorpusDocs
  /\ Live.docs # atStart[indexName].docs

C3_RecoversFromCrash ==
  (prev = "crashedBeforeSwap" /\ pc = "done" /\ ~faulted /\ ~delOldFaulted) =>
    /\ Live.exists
    /\ Live.docs = CorpusDocs
    /\ ~Shadow.exists

C3_Witness ==
  /\ prev = "crashedBeforeSwap"
  /\ pc = "done" /\ ~faulted /\ ~delOldFaulted
  /\ atStart[tempIndexName].docs # {}
  /\ atStart[tempIndexName].docs # CorpusDocs

(* C4: reindex never goes on to the next step holding a create-index,      *)
(* update-settings, add-documents or swap task that ended as failed        *)
C4_FailedTaskStopsRun ==
  (Held.status = "failed"
     /\ Held.op \in {"indexCreation", "settingsUpdate",
                     "documentAdditionOrUpdate", "indexSwap"})
    => pc \in {Held.step \o "Wait", "aborted"}

(* C5: the create request for the shadow index is never outstanding while  *)
(* the shadow index exists                                                 *)
C5_NoCreateWhileShadowExists ==
  (pc = "createWait" /\ Held.status = "enqueued") => ~Shadow.exists

(* the order of the requests of one run *)
Follows(a, b) ==
  CASE a.step = "none" ->
         b.step = "delStale" /\ b.op = "indexDeletion" /\ b.uid = tempIndexName
    [] a.step = "delStale" ->
         b.step = "create" /\ b.op = "indexCreation" /\ b.uid = tempIndexName
    [] a.step = "create" ->
         b.step = "settings" /\ b.op = "settingsUpdate" /\ b.uid = tempIndexName
    [] a.step = "settings" ->
         /\ b.step = "add" /\ b.op = "documentAdditionOrUpdate"
         /\ b.uid = tempIndexName /\ b.from = 0 /\ b.from < b.to
    [] a.step = "add" ->
         \/ /\ a.to < length(documents)
            /\ b.step = "add" /\ b.op = "documentAdditionOrUpdate"
            /\ b.uid = tempIndexName /\ b.from = a.to /\ b.from < b.to
         \/ /\ a.to = length(documents)
            /\ b.step = "probe" /\ b.op = "getIndex" /\ b.uid = indexName
    [] a.step = "probe" ->
         \/ b.step = "createMain" /\ b.op = "indexCreation" /\ b.uid = indexName
         \/ b.step = "swap" /\ b.op = "indexSwap"
    [] a.step = "createMain" -> b.step = "swap" /\ b.op = "indexSwap"
    [] a.step = "swap" ->
         b.step = "delOld" /\ b.op = "indexDeletion" /\ b.uid = tempIndexName
    [] OTHER -> FALSE

(* C6: the requests of a run are issued in the order delete shadow, create *)
(* shadow, update settings, the batches in order, probe of the live index, *)
(* create live index, swap, delete shadow; a request is issued only when   *)
(* no task is enqueued, so at most one task is enqueued at any time        *)
C6_SequentialRequests ==
  /\ [](Cardinality(Enqueued) <= 1)
  /\ [][Issues => (Enqueued = {} /\ Follows(lastReq, lastReq'))]_vars

C6_Witness ==
  /\ pc = "done"
  /\ ~mainExists
  /\ length(documents) > BATCH_SIZE
  /\ ~faulted /\ ~delOldFaulted
  /\ Live.docs = CorpusDocs

(* C7: no add-documents request carries more than 100 documents *)
C7_BatchOfAtMost100 ==
  lastReq.op = "documentAdditionOrUpdate"
    => lastReq.to - lastReq.from <= ReadmeBatchSize

(* C8: while the swap request is outstanding both indexes exist *)
C8_SwapOfTwoIndexes ==
  (pc = "swapWait" /\ Held.status = "enqueued")
    => (Live.exists /\ Shadow.exists)

(* C9: a failure of the deletion of step 6 does not abort the run; if it   *)
(* is the only failure of the run, the run ends with the live index        *)
(* holding its corpus; and a following run whose first deletion succeeds   *)
(* goes on to create the shadow index with the leftover one removed        *)
C9_FinalDeletionNotFatal ==
  /\ delOldFaulted => pc \in {"delOld", "delOldWait", "done", "crashed"}
  /\ (delOldFaulted /\ ~faulted /\ pc = "done") =>
        (Live.exists /\ Live.docs = CorpusDocs)
  /\ (prev = "leftover" /\ ~faulted /\ pc = "create") => ~Shadow.exists

C9_Witness ==
  /\ prev = "leftover"
  /\ ~faulted
  /\ pc = "create"
  /\ atStart[tempIndexName].exists

WaveOf(k) == (k - 1) \div concurrency

(* C10: at most concurrency pages are in flight, and no page of a wave is  *)
(* started while a page of an earlier wave has not ended                   *)
C10_BoundedWaves ==
  /\ Cardinality({k \in DOMAIN urls : page[k] = "inflight"}) <= concurrency
  /\ \A k \in DOMAIN urls, m \in DOMAIN urls :
       (WaveOf(k) < WaveOf(m) /\ page[m] # "idle") => Settled(k)

C10_Witness ==
  /\ concurrency = EntryConcurrency
  /\ \E k \in DOMAIN urls : WaveOf(k) = 0 /\ page[k] = "caught"
  /\ \E k \in DOMAIN urls : WaveOf(k) = 1 /\ page[k] = "inflight"

(* the fetch or the scraping of the url at position k failed *)
Failed(k) ==
  response[k].kind \in {"fetchThrows", "notOk", "parseThrows"}

(* the number of documents of allDocuments that come from position k *)
Contributed(k) ==
  Cardinality({a \in DOMAIN allDocuments : allDocuments[a].page = k})

(* C11: a url whose fetch throws, whose response is not ok or whose        *)
(* parsing throws contributes no document; scrapePages still processes     *)
(* every url and returns the documents of the pages that were scraped      *)
C11_FailedUrlContributesNothing ==
  /\ \A k \in DOMAIN urls : Failed(k) => (results[k] = 0 /\ Contributed(k) = 0)
  /\ spc = "done" =>
       \A k \in DOMAIN urls :
         /\ Settled(k)
         /\ Contributed(k) = IF Failed(k) THEN 0 ELSE response[k].docs

C11_Witness ==
  /\ spc = "done"
  /\ \E k \in DOMAIN urls, m \in DOMAIN urls, l \in DOMAIN urls :
       /\ response[k].kind = "notOk"
       /\ WaveOf(m) = WaveOf(k) /\ k < m
       /\ WaveOf(l) > WaveOf(k)
       /\ response[m].docs > 0 /\ Contributed(m) = response[m].docs
       /\ response[l].docs > 0 /\ Contributed(l) = response[l].docs

(* the callback of position p ended before the callback of position q *)
EndedBefore(p, q) ==
  \E a \in DOMAIN completion, b \in DOMAIN completion :
    a < b /\ completion[a] = p /\ completion[b] = q

(* C12 as stated: allDocuments lists the documents in wave order and,      *)
(* within a wave, in the order in which the pages' fetches completed       *)
C12_CompletionOrder ==
  \A a \in DOMAIN allDocuments, b \in DOMAIN allDocuments :
    (a < b /\ allDocuments[a].page # allDocuments[b].page) =>
      \/ WaveOf(allDocuments[a].page) < WaveOf(allDocuments[b].page)
      \/ /\ WaveOf(allDocuments[a].page) = WaveOf(allDocuments[b].page)
         /\ EndedBefore(allDocuments[a].page, allDocuments[b].page)

(* C12 amended: allDocuments lists the documents in the order of the urls  *)
(* of the crawl list, whatever the order the fetches completed in          *)
C12_UrlListOrder ==
  /\ \A a \in DOMAIN allDocuments, b \in DOMAIN allDocuments :
       a < b =>
         \/ allDocuments[a].page < allDocuments[b].page
         \/ /\ allDocuments[a].page = allDocuments[b].page
            /\ allDocuments[a].objectID[2] < allDocuments[b].objectID[2]
  /\ spc = "done" =>
       allDocuments =
         Flatten([k \in DOMAIN urls |-> PageDocuments(k, results[k])])

C12_Witness ==
  /\ spc = "done"
  /\ \E k \in DOMAIN urls, m \in DOMAIN urls :
       /\ k < m /\ WaveOf(k) = WaveOf(m)
       /\ EndedBefore(m, k)
       /\ Contributed(k) > 0 /\ Contributed(m) > 0

(* main has called processConfig for the c-th configuration *)
Started(c) == c <= ci

(* the result of the c-th configuration has been pushed *)
HasResult(c) == c <= Len(processResults)

(* C13: configurations are processed one after another: a configuration    *)
(* is started only once every configuration before it has its result, and  *)
(* scraping and reindexing belong to the one configuration without result  *)
C13_OneConfigurationAtATime ==
  /\ \A c \in DOMAIN configPaths, d \in DOMAIN configPaths :
       (c < d /\ Started(d)) => HasResult(c)
  /\ (mpc \in {"load", "urls", "scrape", "reindex"} \/ spc \in {"loop", "await"}
        \/ Running) =>
       (ci = Len(processResults) + 1 /\ ci \in DOMAIN configPaths)

C13_Witness ==
  /\ ci = 2
  /\ HasResult(1)
  /\ processResults[1].error = "thrown"
  /\ mpc = "reindex"
  /\ Running
  /\ run = 2

(* the c-th configuration ended with no url, no document or a thrown error *)
EndedInFailure(c) ==
  \/ ~configPaths[c].valid
  \/ Len(Filtered(configPaths[c])) = 0
  \/ processResults[c].documents = 0
  \/ processResults[c].error = "thrown"

EngineCall ==
  \/ engine' # engine
  \/ tasks' # tasks
  \/ lastReq' # lastReq

(* C15: reindex is invoked exactly for a configuration with a url left     *)
(* after the stop_urls filter and a document in its corpus; a page without *)
(* documents does not fail it, and a configuration with an empty corpus    *)
(* issues no engine call and leaves the indexes as they are                *)
C15_ReindexIffCorpus ==
  /\ [](mpc = "reindex" =>
          /\ Len(Filtered(configPaths[ci])) > 0
          /\ Len(allDocuments) > 0
          /\ documents = Corpus(Len(allDocuments)))
  /\ [][Len(processResults') > Len(processResults) =>
          (mpc = "reindex" <=>
             /\ configPaths[ci].valid
             /\ Len(Filtered(configPaths[ci])) > 0
             /\ \E k \in DOMAIN results : results[k] > 0)]_vars
  /\ [][EngineCall => mpc' = "reindex"]_vars

C15_Witness ==
  /\ ci = 2
  /\ processResults[1].error = "No documents extracted"
  /\ mpc = "reindex"
  /\ pc = "done"
  /\ \E k \in DOMAIN urls, m \in DOMAIN urls :
       response[k] = Ok(0) /\ response[m] = Ok(1)
  /\ Live.docs = CorpusDocs
  /\ atStart[indexName] = Absent

(* C20: no two documents of the corpus of a run have the same objectID,    *)
(* whether they come from one page, from two pages or from a url that      *)
(* occurs twice in the crawl list                                          *)
C20_UniqueObjectIDsInCorpus ==
  \A a \in DOMAIN allDocuments, b \in DOMAIN allDocuments :
    a # b => allDocuments[a].objectID # allDocuments[b].objectID

(* the walk of scrapePage steps over a heading *)
HeadingStep ==
  /\ ppc = "walk"
  /\ ei \in DOMAIN allElements
  /\ allElements[ei].kind = "heading"
  /\ ei' = ei + 1

(* C16: a heading of level k sets level k of the hierarchy to its text,    *)
(* empties the levels k+1..6 and leaves the levels 0..k-1 as they are      *)
C16_HeadingClearsLowerLevels ==
  [][HeadingStep =>
       /\ currentHierarchy'[allElements[ei].level] = allElements[ei].text
       /\ \A l \in Levels :
            /\ l > allElements[ei].level => currentHierarchy'[l] = ""
            /\ l < allElements[ei].level =>
                 currentHierarchy'[l] = currentHierarchy[l]]_vars

C16_Witness ==
  /\ ppc = "walk"
  /\ ei = 3
  /\ allElements[1] = Heading(3, "a", <<>>)
  /\ allElements[2] = Heading(2, "b", <<>>)
  /\ allElements[3].kind = "text"
  /\ currentHierarchy[1] = "d"
  /\ currentHierarchy[2] = "b"
  /\ currentHierarchy[3] = ""

(* the walk of scrapePage steps over a text element whose normalized text  *)
(* has at most 10 chars                                                    *)
ShortTextStep ==
  /\ ppc = "walk"
  /\ ei \in DOMAIN allElements
  /\ allElements[ei].kind = "text"
  /\ Len(getTextContent(allElements[ei])) <= 10
  /\ ei' = ei + 1

(* C17: no document of type content has a content of 10 chars or less; a   *)
(* text element with such a text gives no document and leaves the counter  *)
(* of emitted documents as it is                                           *)
C17_NoShortContent ==
  /\ [](\A d \in DOMAIN pageDocuments :
          pageDocuments[d].type = "content" =>
            Len(pageDocuments[d].content) > 10)
  /\ [][ShortTextStep => UNCHANGED <<pageDocuments, contentIndex>>]_vars

C17_Witness ==
  /\ ppc = "returned"
  /\ Len(allElements) = 3
  /\ allElements[1].kind = "text"
  /\ Len(allElements[1].textContent) = 12
  /\ Len(getTextContent(allElements[1])) = 10
  /\ allElements[2] = TextElement(Chars(10))
  /\ Len(pageDocuments) = 1
  /\ pageDocuments[1].objectID[2] = 0
  /\ pageDocuments[1].item_priority =
       item_priority(pageRank, computeLevelWeight(pageDocuments[1].hierarchy),
                     Len(allElements))

(* C19: the documents of a page have different objectIDs, and the i-th     *)
(* content document emitted (from 0) has the suffix i                      *)
C19_UniqueObjectIDsOnPage ==
  /\ \A a \in DOMAIN pageDocuments, b \in DOMAIN pageDocuments :
       a # b => pageDocuments[a].objectID # pageDocuments[b].objectID
  /\ \A a \in DOMAIN pageDocuments :
       pageDocuments[a].type = "content" =>
         pageDocuments[a].objectID[2] = a - 1

C19_Witness ==
  /\ ppc = "returned"
  /\ Len(pageDocuments) = 3
  /\ pageDocuments[1].objectID[1] = pageDocuments[2].objectID[1]
  /\ pageDocuments[2].objectID[1] = pageDocuments[3].objectID[1]
  /\ pageDocuments[3].objectID[2] = 2

(* the deepest level of the hierarchy of d that is not empty *)
Depth(d) ==
  CHOOSE l \in Levels :
    /\ d.hierarchy[l] # ""
    /\ \A m \in Levels : m > l => d.hierarchy[m] = ""

(* d1 comes before d2: by rank, then by the shallower depth, then by the   *)
(* earlier emission on the page                                            *)
Outranks(d1, d2) ==
  \/ d1.pageRank > d2.pageRank
  \/ /\ d1.pageRank = d2.pageRank
     /\ Depth(d1) < Depth(d2)
  \/ /\ d1.pageRank = d2.pageRank
     /\ Depth(d1) = Depth(d2)
     /\ d1.page = d2.page
     /\ d1.contentIndex < d2.contentIndex

C24_RunsWithoutCustomSettings ==
  (/\ ~settings.defined
   /\ Held.op = "indexCreation"
   /\ Held.uid = tempIndexName
   /\ Held.status = "succeeded") => pc # "aborted"

(* C28: when a run returns without an error, the live index holds exactly  *)
(* the documents of its corpus, whatever the indexes held at the start and *)
(* whichever tasks the engine reported as failed                           *)
C28_LiveIsCorpusAtReturn ==
  pc = "done" => (Live.exists /\ Live.docs = CorpusDocs)

(* ------------------------- addDocuments alone -------------------------- *)

(* corpus sizes tried for addDocuments called on its own: none, one        *)
(* document, around one full batch, and one batch more than MaxBatches     *)
BatchCorpusSizes ==
  {0, 1, BATCH_SIZE - 1, BATCH_SIZE, BATCH_SIZE + 1,
   MaxBatches * BATCH_SIZE + BATCH_SIZE}

(* the index addDocuments uploads to: missing, empty, or holding the       *)
(* documents of an earlier upload                                          *)
TargetIndexes ==
  {Absent, EmptyIndex,
   [exists |-> TRUE, docs |-> {<<0, ReadmeBatchSize, "old">>}, settings |-> {}]}

(* addDocuments, lines 82-89: called with an index name and its documents *)
BatchesInit ==
  /\ \E target \in TargetIndexes :
       /\ engine = [u \in IndexUids |-> IF u = tempIndexName THEN target
                                        ELSE Absent]
       /\ atStart = engine
  /\ \E n \in BatchCorpusSizes : documents = Corpus(n)
  /\ tasks = <<>>
  /\ pc = "add"
  /\ run = 1
  /\ settings = [defined |-> TRUE, fields |-> {}]
  /\ i = 0
  /\ mainExists = FALSE
  /\ taskUid = 0
  /\ lastReq = NoRequest
  /\ prev = "none"
  /\ faulted = FALSE
  /\ delOldFaulted = FALSE
  /\ batches = <<>>

InitBatches ==
  /\ BatchesInit
  /\ ScrapeIdle
  /\ MainIdle
  /\ PageIdle
  /\ DomIdle
  /\ MatchIdle

NextBatches ==
  \/ addDocuments_batch
  \/ addDocuments_wait
  \/ Engine_ProcessTask

SpecBatches == InitBatches /\ [][NextBatches]_vars

(* the documents of the batches sent so far, taken in send order, are the  *)
(* documents of d from its first one on, with no gap and no repetition     *)
Consecutive(sent, d) ==
  \A k \in 1..Len(sent) :
    /\ sent[k][1] = (IF k = 1 THEN d[1] ELSE sent[k - 1][2])
    /\ sent[k][3] = d[3]

(* C29: the add-documents calls of a run form an ordered partition of the  *)
(* corpus: the batches sent are consecutive slices from the first document *)
(* on, none is empty, every batch but the last has BATCH_SIZE documents    *)
(* and the last has at most as many; when the loop has ended the batches   *)
(* reach the last document, and an empty corpus has produced no call       *)
C29_BatchesPartitionCorpus ==
  /\ Consecutive(batches, documents)
  /\ \A k \in 1..Len(batches) :
       /\ length(batches[k]) > 0
       /\ length(batches[k]) <= BATCH_SIZE
       /\ k < Len(batches) => length(batches[k]) = BATCH_SIZE
  /\ pc = "probe" =>
       IF length(documents) = 0 THEN batches = <<>>
       ELSE /\ batches # <<>>
            /\ batches[Len(batches)][2] = documents[2]

C29_Witness ==
  /\ pc = "probe"
  /\ Len(batches) = 2
  /\ length(batches[2]) = 1

(* p is a prefix of u *)
IsPrefix(p, u) ==
  /\ Len(p) <= Len(u)
  /\ \A k \in 1..Len(p) : p[k] = u[k]

(* the url starts with some entry of the stop_urls of the configuration *)
Stopped(u, config) ==
  \E p \in config.stop_urls : IsPrefix(p, u)

(* C26: while scrapePages runs for a configuration, a discovered url is    *)
(* among the urls passed to it exactly when it starts with no stop_urls    *)
(* entry, and no url starting with a stop_urls entry is ever fetched       *)
C26_StopUrlsFilter ==
  mpc = "scrape" =>
    /\ \A k \in DOMAIN configPaths[ci].urls :
         LET u == configPaths[ci].urls[k]
         IN  (\E j \in DOMAIN urls : urls[j] = u) <=> ~Stopped(u, configPaths[ci])
    /\ \A j \in DOMAIN urls :
         /\ \E k \in DOMAIN configPaths[ci].urls : configPaths[ci].urls[k] = urls[j]
         /\ response[j] # NoResponse => ~Stopped(urls[j], configPaths[ci])

C26_Witness ==
  /\ mpc = "scrape"
  /\ Len(configPaths[ci].urls) = 3
  /\ Len(urls) = 2
  /\ \A j \in DOMAIN urls : response[j] # NoResponse

(* no element of the page matches the text selector *)
NoTextElement ==
  \A e \in DOMAIN allElements : ~allElements[e].isText

(* the lvl1 value of the page: the text of the first element the lvl1      *)
(* selector matches, or the default_value of the selector                  *)
Lvl1Value ==
  LET hs == {e \in DOMAIN allElements : /\ allElements[e].kind = "heading"
                                        /\ allElements[e].level = 1}
      first == IF hs = {} THEN ""
               ELSE allElements[CHOOSE e \in hs : \A f \in hs : e <= f].text
  IN  IF first # "" THEN first ELSE lvlConfig[1].default_value

(* C25: a page without an element matching the text selector returns one   *)
(* document of type lvl1 with empty content if it has a lvl1 value, and    *)
(* nothing otherwise; a page with such an element never gets a document    *)
(* of type lvl1                                                            *)
C25_Lvl1DocumentOnlyWithoutText ==
  /\ (ppc = "returned" /\ NoTextElement) =>
       IF Lvl1Value # ""
       THEN /\ Len(pageDocuments) = 1
            /\ pageDocuments[1].type = "lvl1"
            /\ pageDocuments[1].content = <<>>
            /\ pageDocuments[1].hierarchy[1] = Lvl1Value
       ELSE pageDocuments = <<>>
  /\ (ppc # "idle" /\ ~NoTextElement) =>
       \A d \in DOMAIN pageDocuments : pageDocuments[d].type # "lvl1"

C25_Witness ==
  /\ ppc = "returned"
  /\ Len(allElements) = MaxElements
  /\ NoTextElement
  /\ Lvl1Value = "b"
  /\ Len(pageDocuments) = 1
  /\ pageDocuments[1].type = "lvl1"

(* the positions before e of the headings of level k *)
HeadingsBefore(k, e) ==
  {j \in 1..(e - 1) : allElements[j].kind = "heading" /\ allElements[j].level = k}

(* the text of the last heading of level k before position e, if no        *)
(* heading of a shallower level stands between the two; else nothing, or   *)
(* for level 1 without any such heading the global lvl1 value              *)
HierarchyAt(k, e) ==
  LET hs == HeadingsBefore(k, e)
      last == CHOOSE j \in hs : \A h \in hs : h <= j
  IN  IF hs = {} THEN (IF k = 1 THEN globalLvl[1] ELSE "")
      ELSE IF \E m \in (last + 1)..(e - 1) :
                /\ allElements[m].kind = "heading"
                /\ allElements[m].level < k
           THEN ""
           ELSE allElements[last].text

(* C30: a content document carries, for every level 1..6, the text of the  *)
(* last heading of that level before its text element that no shallower    *)
(* heading follows (for level 1 the global lvl1 value if no such heading   *)
(* stands before it); an element that matches a heading selector gives no  *)
(* document, even when the text selector matches it too                    *)
C30_HierarchySnapshot ==
  [][(ppc = "walk" /\ ei' = ei + 1) =>
       /\ allElements[ei].kind = "heading" =>
            /\ pageDocuments' = pageDocuments
            /\ currentHierarchy'[allElements[ei].level] = allElements[ei].text
       /\ pageDocuments' # pageDocuments =>
            /\ allElements[ei].kind # "heading"
            /\ allElements[ei].isText
            /\ Len(pageDocuments') = Len(pageDocuments) + 1
            /\ pageDocuments'[Len(pageDocuments')].type = "content"
            /\ \A k \in 1..6 :
                 pageDocuments'[Len(pageDocuments')].hierarchy[k]
                   = HierarchyAt(k, ei)]_vars

C30_Witness ==
  /\ ppc = "returned"
  /\ Len(allElements) = 3
  /\ allElements[1] = Heading(2, "a", <<>>)
  /\ allElements[2] = HeadingAndText(3, "c", Chars(MinContentLength + 1))
  /\ allElements[3].kind = "text"
  /\ Len(pageDocuments) = 1
  /\ pageDocuments[1].hierarchy[1] = "d"
  /\ pageDocuments[1].hierarchy[2] = "a"
  /\ pageDocuments[1].hierarchy[3] = "c"

(* ----------------- scrapePage from its fetch to its walk --------------- *)

MaxNodes == 3

(* a node of the parsed page: the selector that matches it ("breadcrumb",  *)
(* "tags", "lvl0", or "element" for a heading or text selector), whether a *)
(* selector of selectors_exclude matches it, its whitespace-normalized     *)
(* text and, for a heading or text element, the element                    *)
Node(role, excluded, text, element) ==
  [role |-> role, excluded |-> excluded, text |-> text, element |-> element]

(* the text of every node that selectors_exclude matches, and the char its *)
(* textContent is made of                                                  *)
ExcludedText == "x"

ExcludedChar == 120

(* the nodes tried: for each selector a node that stays and one that       *)
(* selectors_exclude matches, and a heading with the id "i"                *)
Nodes ==
  { Node("breadcrumb", FALSE, "b", TextElement(<<>>)),
    Node("breadcrumb", TRUE, ExcludedText, TextElement(<<>>)),
    Node("tags", FALSE, "t", TextElement(<<>>)),
    Node("tags", TRUE, ExcludedText, TextElement(<<>>)),
    Node("lvl0", FALSE, "g", TextElement(<<>>)),
    Node("lvl0", TRUE, ExcludedText, TextElement(<<>>)),
    Node("element", FALSE, "", Heading(1, "a", <<>>)),
    Node("element", FALSE, "", Heading(2, "a", <<105>>)),
    Node("element", TRUE, "", Heading(1, ExcludedText, <<>>)),
    Node("element", FALSE, "", TextElement(Chars(MinContentLength + 1))),
    Node("element", TRUE, "",
         TextElement([j \in 1..(MinContentLength + 1) |-> ExcludedChar])) }

(* config.tags of the configuration tried *)
ConfigTags == {"c"}

(* the User-Agent both fetches send *)
USER_AGENT == "MeilisearchDocsScraper/1.0"

(* getFetchHeaders, config.ts lines 84-92; the value of Authorization is   *)
(* held as <<"Basic", user, pass>>, and as <<>> where the header is absent *)
getFetchHeaders ==
  [User_Agent |-> USER_AGENT,
   Authorization |->
     IF env.BASIC_AUTH_USERNAME # "" /\ env.BASIC_AUTH_PASSWORD # ""
     THEN <<"Basic", env.BASIC_AUTH_USERNAME, env.BASIC_AUTH_PASSWORD>>
     ELSE <<>>]

(* querySelectorAll(selector), in document order *)
queryAll(doc, role) ==
  SelectSeq(doc, LAMBDA node : node.role = role)

(* the two steps before the walk leave the locals of the walk alone *)
WalkUnchanged ==
  UNCHANGED <<pageUrl, pageRank, lvlConfig, ei, currentHierarchy,
              lastHeadingAnchor, contentIndex, pageDocuments, compared,
              priorities>>

(* parseSitemap, part_002 lines 16-24: the fetch of the sitemap *)
parseSitemap_fetch ==
  /\ dpc = "sitemap"
  /\ requests' = Append(requests, [target |-> "sitemap",
                                   headers |-> getFetchHeaders])
  /\ dpc' = "fetch"
  /\ UNCHANGED <<env, document>>
  /\ UNCHANGED <<globalLvl, breadcrumb, pageTags, allElements, ppc>>
  /\ WalkUnchanged
  /\ UNCHANGED <<reindexVars, scrapeVars, mainVars, matchVars>>

(* scrapePage, lines 119-128: the fetch of the page, answered with the     *)
(* page                                                                    *)
scrapePage_fetch ==
  /\ dpc = "fetch"
  /\ requests' = Append(requests,
                        [target |-> "page",
                         headers |-> [User_Agent |-> USER_AGENT,
                                      Authorization |-> <<>>]])
  /\ dpc' = "extract"
  /\ UNCHANGED <<env, document>>
  /\ UNCHANGED <<globalLvl, breadcrumb, pageTags, allElements, ppc>>
  /\ WalkUnchanged
  /\ UNCHANGED <<reindexVars, scrapeVars, mainVars, matchVars>>

(* scrapePage, lines 136-159: breadcrumb and tags, of a page without       *)
(* docsearch meta elements                                                 *)
scrapePage_extract ==
  /\ dpc = "extract"
  /\ LET breadcrumbEl == queryAll(document, "breadcrumb")
         tagElements == queryAll(document, "tags")
         cssTags == {tagElements[k].text : k \in DOMAIN tagElements} \ {""}
     IN  /\ breadcrumb' = IF breadcrumbEl = <<>> THEN ""
                          ELSE breadcrumbEl[1].text
         /\ pageTags' = IF cssTags = {} THEN ConfigTags ELSE cssTags
  /\ dpc' = "exclude"
  /\ UNCHANGED <<env, requests, document>>
  /\ UNCHANGED <<globalLvl, allElements, ppc>>
  /\ WalkUnchanged
  /\ UNCHANGED <<reindexVars, scrapeVars, mainVars, matchVars>>

(* scrapePage, lines 161-184 and 244: the excluded elements are removed,   *)
(* then the global levels and the elements of the walk are queried         *)
scrapePage_exclude ==
  /\ dpc = "exclude"
  /\ LET remaining == SelectSeq(document, LAMBDA node : ~node.excluded)
         elements == queryAll(remaining, "element")
         lvl0 == queryAll(remaining, "lvl0")
     IN  /\ document' = remaining
         /\ allElements' = [k \in DOMAIN elements |-> elements[k].element]
         /\ globalLvl' =
              [l \in 0..1 |->
                 IF ~lvlConfig[l].global THEN ""
                 ELSE IF l = 0
                      THEN Or(IF lvl0 = <<>> THEN "" ELSE lvl0[1].text,
                              lvlConfig[0].default_value)
                      ELSE extractLevelValue(allElements', 1, lvlConfig[1])]
  /\ dpc' = "parsed"
  /\ ppc' = "start"
  /\ UNCHANGED <<env, requests>>
  /\ UNCHANGED <<breadcrumb, pageTags>>
  /\ WalkUnchanged
  /\ UNCHANGED <<reindexVars, scrapeVars, mainVars, matchVars>>

(* the settings of BASIC_AUTH_USERNAME and BASIC_AUTH_PASSWORD tried *)
Envs ==
  [BASIC_AUTH_USERNAME : {"", "u"}, BASIC_AUTH_PASSWORD : {"", "p"}]

(* the urls tried for the page: Aa and A#a *)
DomUrls == {<<65, 97>>, <<65, 35, 97>>}

(* the lvl0 and lvl1 selectors tried: lvl0 global without default_value,   *)
(* global with one, and not global with one; lvl1 global                   *)
DomLvlConfigs ==
  { [l \in 0..1 |-> IF l = 0 THEN c0 ELSE SelectorConfig(TRUE, "")] :
      c0 \in {SelectorConfig(TRUE, ""), SelectorConfig(TRUE, "d"),
              SelectorConfig(FALSE, "d")} }

(* a page of a configuration with a sitemap, a breadcrumb selector, a tags *)
(* selector and selectors_exclude                                          *)
DomInit ==
  /\ env \in Envs
  /\ requests = <<>>
  /\ \E n \in 0..MaxNodes : document \in [1..n -> Nodes]
  /\ dpc = "sitemap"
  /\ pageUrl \in DomUrls
  /\ pageRank = 1
  /\ lvlConfig \in DomLvlConfigs
  /\ globalLvl = <<>>
  /\ breadcrumb = ""
  /\ pageTags = {}
  /\ allElements = <<>>
  /\ ppc = "idle"
  /\ ei = 0
  /\ currentHierarchy = <<>>
  /\ lastHeadingAnchor = <<>>
  /\ contentIndex = 0
  /\ pageDocuments = <<>>
  /\ compared = <<>>
  /\ priorities = <<>>

InitDom ==
  /\ DomInit
  /\ MatchIdle
  /\ ReindexInit
  /\ ScrapeIdle
  /\ MainIdle

NextDom ==
  \/ parseSitemap_fetch
  \/ scrapePage_fetch
  \/ scrapePage_extract
  \/ scrapePage_exclude
  \/ scrapePage_start
  \/ scrapePage_heading
  \/ scrapePage_text
  \/ scrapePage_return

SpecDom == InitDom /\ [][NextDom]_vars

(* the document holds the text of an excluded element in its content, in   *)
(* a hierarchy level, in its breadcrumb or among its tags                  *)
FromExcluded(d) ==
  \/ \E k \in DOMAIN d.content : d.content[k] = ExcludedChar
  \/ \E l \in Levels : d.hierarchy[l] = ExcludedText
  \/ d.breadcrumb = ExcludedText
  \/ ExcludedText \in d.tags

(* C21: no document of a page holds anything of an element matched by      *)
(* selectors_exclude: not in its content, its hierarchy levels, its         *)
(* breadcrumb or its tags                                                  *)
C21_ExcludedNeverContributes ==
  \A d \in DOMAIN pageDocuments : ~FromExcluded(pageDocuments[d])

(* C23: with BASIC_AUTH_USERNAME and BASIC_AUTH_PASSWORD both set, every   *)
(* fetch of a page carries the Authorization header built from them        *)
C23_PageFetchCarriesBasicAuth ==
  (env.BASIC_AUTH_USERNAME # "" /\ env.BASIC_AUTH_PASSWORD # "") =>
    \A r \in DOMAIN requests :
      requests[r].target = "page" =>
        requests[r].headers.Authorization =
          <<"Basic", env.BASIC_AUTH_USERNAME, env.BASIC_AUTH_PASSWORD>>

(* ------------------ matchStartUrl and getSelectorsForKey --------------- *)

MaxRules == 2

(* a selectors_key that is undefined *)
Undefined == "undefined"

(* a start_urls entry given as a string *)
StringEntry(url) ==
  [kind |-> "string", url |-> url, page_rank |-> 0, selectors_key |-> Undefined]

(* a start_urls entry given as an object *)
StartUrlConfig(url, page_rank, selectors_key) ==
  [kind |-> "object", url |-> url, page_rank |-> page_rank,
   selectors_key |-> selectors_key]

(* the entries tried, with the patterns A, B, .B and the pattern A( that   *)
(* is not a regular expression                                             *)
StartUrlEntries ==
  { StringEntry(<<65>>),
    StringEntry(<<66>>),
    StartUrlConfig(<<65>>, 5, "docs"),
    StartUrlConfig(<<66>>, 10, "api"),
    StartUrlConfig(<<46, 66>>, 7, Undefined),
    StartUrlConfig(<<65, 40>>, 3, "docs") }

(* the urls tried: Aa, BB, AB and A( *)
MatchUrls == Urls \cup {<<65, 40>>}

(* config.selectors tried, as the keys declared in order: one Selectors    *)
(* object, and maps of selector sets with and without "default"           *)
SelectorsChoices ==
  { <<"lvl0", "lvl1", "text">>,
    <<"docs", "default">>,
    <<"blog", "docs">>,
    <<"blog", "default", "docs">>,
    <<"blog">> }

(* new RegExp(pattern) throws for a pattern with an unclosed group *)
isRegExp(pattern) ==
  \A k \in DOMAIN pattern : pattern[k] # 40

(* RegExp.prototype.test of a pattern of literal chars and dots: the       *)
(* pattern is searched for at every offset, a dot standing for any char    *)
test(pattern, url) ==
  \E from \in 0..(Len(url) - Len(pattern)) :
    \A k \in DOMAIN pattern : pattern[k] = 46 \/ pattern[k] = url[from + k]

ruleMatches_regexOnly(entry, url) ==
  isRegExp(entry.url) /\ test(entry.url, url)

(* matchStartUrl, lines 204-215: the rule of an object entry matches *)
ruleMatches(entry, url) ==
  IF isRegExp(entry.url) THEN test(entry.url, url)
  ELSE includes(url, entry.url)

(* matchStartUrl, line 201: an entry given as a string is passed over *)
isSkipped_never(entry) == FALSE

isSkipped(entry) == entry.kind = "string"

(* matchStartUrl, lines 199-217 *)
RECURSIVE matchStartUrl(_, _)
matchStartUrl(url, entries) ==
  IF entries = <<>> THEN [page_rank |-> 1, selectors_key |-> Undefined]
  ELSE IF ~isSkipped(Head(entries)) /\ ruleMatches(Head(entries), url)
       THEN [page_rank |-> Head(entries).page_rank,
             selectors_key |-> Head(entries).selectors_key]
       ELSE matchStartUrl(url, Tail(entries))

(* the object config.selectors itself, as getSelectorsForKey returns it    *)
(* for a configuration with one selector set                               *)
WholeSelectors == "config.selectors"

(* isSelectorsMap, lines 172-174 *)
isSelectorsMap(keys) ==
  \A k \in DOMAIN keys : keys[k] # "lvl0"

(* getSelectorsForKey, lines 180-193: the set returned, by its key *)
getSelectorsForKey_firstKey(keys, key) ==
  IF ~isSelectorsMap(keys) THEN WholeSelectors
  ELSE IF key # Undefined /\ \E k \in DOMAIN keys : keys[k] = key THEN key
  ELSE IF keys = <<>> THEN Undefined
  ELSE keys[1]

getSelectorsForKey(keys, key) ==
  IF ~isSelectorsMap(keys) THEN WholeSelectors
  ELSE IF key # Undefined /\ \E k \in DOMAIN keys : keys[k] = key THEN key
  ELSE IF \E k \in DOMAIN keys : keys[k] = "default" THEN "default"
  ELSE IF keys = <<>> THEN Undefined
  ELSE keys[1]

(* scrapePages, part_001 lines 323-325: the rank and the selectors of a    *)
(* url                                                                     *)
scrapePages_match ==
  /\ matchPc = "match"
  /\ matched' = matchStartUrl(matchUrl, startUrls)
  /\ selected' = getSelectorsForKey(selectors, matched'.selectors_key)
  /\ matchPc' = "matched"
  /\ UNCHANGED <<startUrls, selectors, matchUrl>>
  /\ UNCHANGED <<reindexVars, scrapeVars, mainVars, pageVars, domVars>>

MatchInit ==
  /\ \E n \in 0..MaxRules : startUrls \in [1..n -> StartUrlEntries]
  /\ selectors \in SelectorsChoices
  /\ matchUrl \in MatchUrls
  /\ matched = <<>>
  /\ selected = <<>>
  /\ matchPc = "match"

InitMatch ==
  /\ MatchInit
  /\ PageIdle
  /\ DomIdle
  /\ ReindexInit
  /\ ScrapeIdle
  /\ MainIdle

NextMatch ==
  scrapePages_match

SpecMatch == InitMatch /\ [][NextMatch]_vars

(* the positions of the object rules of start_urls that match the url *)
MatchingRules ==
  {k \in DOMAIN startUrls : /\ startUrls[k].kind = "object"
                            /\ ruleMatches(startUrls[k], matchUrl)}

(* the positions of the rules that match the url when an entry given as a  *)
(* string matches every url that contains it                               *)
MatchingEntries ==
  MatchingRules \cup {k \in DOMAIN startUrls :
                        /\ startUrls[k].kind = "string"
                        /\ includes(matchUrl, startUrls[k].url)}

(* the first of a non-empty set of positions *)
First(S) == CHOOSE k \in S : \A j \in S : k <= j

(* C22, as stated: the result is the rank and key of the first entry that  *)
(* matches the url, an entry given as a string matching by containment and *)
(* giving rank 1 and no key                                                *)
C22_FirstEntryWins ==
  matchPc = "matched" =>
    IF MatchingEntries = {}
    THEN matched = [page_rank |-> 1, selectors_key |-> Undefined]
    ELSE LET entry == startUrls[First(MatchingEntries)]
         IN  IF entry.kind = "string"
             THEN matched = [page_rank |-> 1, selectors_key |-> Undefined]
             ELSE matched = [page_rank |-> entry.page_rank,
                             selectors_key |-> entry.selectors_key]

(* C22, amended: the result is the rank and key of the first object rule   *)
(* that matches the url, whatever entries given as strings stand before    *)
(* it, and an earlier matching object rule is never overridden by a later  *)
(* one; without a matching object rule it is rank 1 and no key             *)
C22_FirstObjectRuleWins ==
  matchPc = "matched" =>
    IF MatchingRules = {}
    THEN matched = [page_rank |-> 1, selectors_key |-> Undefined]
    ELSE matched = [page_rank |-> startUrls[First(MatchingRules)].page_rank,
                    selectors_key |->
                      startUrls[First(MatchingRules)].selectors_key]

C22_Witness ==
  /\ matchPc = "matched"
  /\ Len(startUrls) = 2
  /\ startUrls[1] = StartUrlConfig(<<46, 66>>, 7, Undefined)
  /\ startUrls[2] = StartUrlConfig(<<66>>, 10, "api")
  /\ matchUrl = <<65, 66>>
  /\ matched.page_rank = 7

(* C27: a url that no rule matches gets rank 1 and no selectors key; the   *)
(* selector set of a url is the single selectors object if there is only   *)
(* one, else the set named by its key if the map declares it, else the set *)
(* named "default" if declared, else the first declared set                *)
C27_SelectorsFallback ==
  matchPc = "matched" =>
    /\ MatchingRules = {} =>
         matched = [page_rank |-> 1, selectors_key |-> Undefined]
    /\ LET declared == {selectors[k] : k \in DOMAIN selectors}
       IN  IF "lvl0" \in declared THEN selected = WholeSelectors
           ELSE IF matched.selectors_key \in declared
                THEN selected = matched.selectors_key
                ELSE IF "default" \in declared THEN selected = "default"
                     ELSE selected = selectors[1]

C27_Witness ==
  /\ matchPc = "matched"
  /\ startUrls # <<>>
  /\ MatchingRules = {}
  /\ selectors = <<"blog", "default", "docs">>
  /\ selected = "default"

(* ------------------- scrapePages with fetches that end ----------------- *)

(* scrapePages called with a list of distinct urls, each fetch of which    *)
(* throws, is answered with a status that is not ok, or gives a page with  *)
(* one document; every step of scrapePages that can be taken is taken in   *)
(* the end: the loop and its continuations run as soon as they can, and    *)
(* every fetch ends, with a response or with an error                      *)
EndingInit ==
  /\ \E n \in 0..(MaxPages + 2) : urls = [k \in 1..n |-> Url(k)]
  /\ concurrency \in SmallConcurrencies
  /\ web = {FetchThrows, NotOk, Ok(1)}
  /\ ScrapeLocals

InitEnding ==
  /\ PageIdle
  /\ DomIdle
  /\ MatchIdle
  /\ ReindexInit
  /\ EndingInit
  /\ MainIdle

FairScrape ==
  /\ InitEnding
  /\ [][NextScrape]_vars
  /\ WF_vars(scrapePages_batch)
  /\ WF_vars(scrapePages_callback)
  /\ WF_vars(scrapePages_collect)
  /\ WF_vars(scrapePages_return)

(* C35: scrapePages returns in the end; the callback of a url is started   *)
(* once, never again after it has ended, and when scrapePages returns      *)
(* every url has been processed and processed is the number of urls        *)
C35_ScrapePagesTerminates ==
  /\ <>(spc = "done")
  /\ [](spc = "done" =>
          /\ processed = Len(urls)
          /\ \A k \in DOMAIN urls : Settled(k))
  /\ [][\A k \in DOMAIN urls :
          /\ page[k] # "idle" => page'[k] # "idle"
          /\ Settled(k) => page'[k] = page[k]]_vars

C35_Witness ==
  /\ spc = "done"
  /\ Len(urls) = MaxPages + 2
  /\ concurrency = 2
  /\ processed = MaxPages + 2
  /\ \E k \in DOMAIN urls : response[k].kind = "fetchThrows"
  /\ \E k \in DOMAIN urls : response[k].kind = "ok"

(* the pattern has an unclosed group, so that it is no regular expression *)
DoesNotCompile(pattern) ==
  \E k \in DOMAIN pattern : pattern[k] = 40

(* the url holds the pattern, char by char, at some offset *)
Contains(u, pattern) ==
  \E from \in 0..(Len(u) - Len(pattern)) :
    \A k \in 1..Len(pattern) : u[from + k] = pattern[k]

Emitting ==
  {e \in DOMAIN allElements :
     /\ allElements[e].kind # "heading"
     /\ allElements[e].isText
     /\ Len(getTextContent(allElements[e])) > MinContentLength}

(* the position whose element gave the d-th content document *)
SourceOf(d) ==
  CHOOSE e \in Emitting : Cardinality({f \in Emitting : f <= e}) = d

(* the id of the last heading before position e, nothing without one *)
ActiveAnchor(e) ==
  LET hs == {j \in 1..(e - 1) : allElements[j].kind = "heading"}
  IN  IF hs = {} THEN <<>>
      ELSE allElements[CHOOSE j \in hs : \A h \in hs : h <= j].id

(* the url of the page up to its first "#" *)
BeforeHash ==
  IF \E k \in DOMAIN pageUrl : pageUrl[k] = 35
  THEN SubSeq(pageUrl, 1,
              (CHOOSE k \in DOMAIN pageUrl :
                 /\ pageUrl[k] = 35
                 /\ \A h \in 1..(k - 1) : pageUrl[h] # 35) - 1)
  ELSE pageUrl

(* C31: the anchor of a content document is the id of the last heading     *)
(* walked before its text element, absent if that heading has no id or no  *)
(* heading precedes the element; its url is url_without_anchor, "#" and    *)
(* the anchor exactly when the anchor is present, else url_without_anchor  *)
C31_AnchorOfLastHeading ==
  \A d \in DOMAIN pageDocuments :
    pageDocuments[d].type = "content" =>
      LET doc == pageDocuments[d]
          active == ActiveAnchor(SourceOf(d))
      IN  /\ doc.anchor = active
          /\ doc.url_without_anchor = BeforeHash
          /\ doc.url = IF active = <<>> THEN doc.url_without_anchor
                       ELSE doc.url_without_anchor \o <<35>> \o active

C31_Witness ==
  /\ ppc = "returned"
  /\ pageUrl = <<65, 35, 97>>
  /\ Len(allElements) = 3
  /\ allElements[1].kind = "heading" /\ allElements[1].id = <<105>>
  /\ allElements[2].kind = "heading" /\ allElements[2].id = <<>>
  /\ Len(pageDocuments) = 1
  /\ pageDocuments[1].type = "content"
  /\ pageDocuments[1].anchor = <<>>
  /\ pageDocuments[1].url = <<65>>

(* the position term of a content document *)
PositionTerm(doc) ==
  doc.item_priority - pageRank * RankUnit
    - computeLevelWeight(doc.hierarchy) * WeightUnit

(* C32: of two content documents of a page with the same level weight the  *)
(* earlier has the larger item_priority; the position term is the number   *)
(* of candidate elements minus the index of the document among the content *)
(* documents, at least 1 and at most the number of candidate elements      *)
C32_PriorityDecreasesWithPosition ==
  /\ \A d1, d2 \in DOMAIN pageDocuments :
       (/\ d1 < d2
        /\ pageDocuments[d1].type = "content"
        /\ pageDocuments[d2].type = "content"
        /\ computeLevelWeight(pageDocuments[d1].hierarchy)
             = computeLevelWeight(pageDocuments[d2].hierarchy))
         => pageDocuments[d1].item_priority > pageDocuments[d2].item_priority
  /\ \A d \in DOMAIN pageDocuments :
       pageDocuments[d].type = "content" =>
         /\ PositionTerm(pageDocuments[d]) = Len(allElements) - (d - 1)
         /\ PositionTerm(pageDocuments[d]) >= 1
         /\ PositionTerm(pageDocuments[d]) <= Len(allElements)

C32_Witness ==
  /\ ppc = "returned"
  /\ Len(allElements) = 3
  /\ Len(pageDocuments) = 2
  /\ pageDocuments[1].type = "content"
  /\ pageDocuments[2].type = "content"
  /\ pageDocuments[1].hierarchy = pageDocuments[2].hierarchy
  /\ pageDocuments[1].item_priority = pageDocuments[2].item_priority + 1
  /\ PositionTerm(pageDocuments[2]) = 2

(* the lvl0 of a page: the text of the first element left in the document  *)
(* that the lvl0 selector matches if the selector is global, else its      *)
(* default_value, else nothing                                             *)
Lvl0OfPage ==
  LET found == SelectSeq(document, LAMBDA node : node.role = "lvl0")
  IN  IF lvlConfig[0].global /\ found # <<>> /\ found[1].text # ""
      THEN found[1].text
      ELSE lvlConfig[0].default_value

(* C34: every document of a page carries the same hierarchy_lvl0, the one  *)
(* resolved for the page before the walk; no element of the walk changes   *)
(* it, whether the lvl0 selector is global or not                          *)
C34_Lvl0FixedPerPage ==
  /\ \A d \in DOMAIN pageDocuments :
       pageDocuments[d].hierarchy[0] = Lvl0OfPage
  /\ currentHierarchy # <<>> => currentHierarchy[0] = Lvl0OfPage

C34_Witness ==
  /\ ppc = "returned"
  /\ ~lvlConfig[0].global
  /\ \E k \in DOMAIN document : document[k].role = "lvl0"
  /\ Len(allElements) = 2
  /\ allElements[1].kind = "heading"
  /\ Len(pageDocuments) = 1
  /\ pageDocuments[1].type = "content"
  /\ pageDocuments[1].hierarchy[0] = "d"

====
